---- MODULE Spec2Model ----
(***************************************************************************)
(* A model of lasv: the version arithmetic and compliance decision of      *)
(* lasv/context.py, the diagnosis ledger (LasvContext) and the release     *)
(* pair walker and interface differ of lasv/releases.py and lasv/specs.py. *)
(*                                                                         *)
(* Python dicts are functions whose DOMAIN is the set of keys present, so  *)
(* "key in d" is  k \in DOMAIN d  and "del d[k]" shrinks the domain.       *)
(***************************************************************************)
EXTENDS Integers, Sequences, FiniteSets, TLC

VARIABLES
    in_v1, in_v2, out_bump,                    \* _detect_version_bump: inputs, result
    in_bump, in_major, in_minor, in_analyzer,  \* _calculate_compliance: inputs
    out_compliance,                            \* _calculate_compliance: result
    data,      \* LasvContext.data['crates']: crate -> crate entry
    file,      \* content of lasv.yaml on disk, or None when the file is missing
    old,       \* content of lasv.yaml.old on disk, or None when it is missing
    fp,        \* find_pairs / analyze_release_with_model: the local variables
    context,   \* LasvContext.model, .model_key and .full
    alr,       \* the Alire index: the crate's releases, oldest first, and flags
    tree,      \* the sources of each release: version -> file name -> file
    runs,      \* number of runs started so far
    sv,        \* save(): its position, and what the process last saved
    qm         \* query_model(): its locals and position

pureVars == <<in_v1, in_v2, out_bump, in_bump, in_major, in_minor, in_analyzer,
              out_compliance>>
ledgerVars == <<data, file, old>>

pairVars == <<fp, context, alr, tree, runs, sv, qm>>

vars == <<pureVars, ledgerVars, pairVars>>

(***************************************************************************)
(* Bounds                                                                  *)
(***************************************************************************)
MaxField == 2        \* version fields range over 0..MaxField
MaxChanges == 2      \* longest change list handed to _calculate_compliance

(***************************************************************************)
(* Dict helpers                                                            *)
(***************************************************************************)
Put(d, k, v) == [x \in DOMAIN d \cup {k} |-> IF x = k THEN v ELSE d[x]]
Del(d, k) == [x \in DOMAIN d \ {k} |-> d[x]]
EmptyDict == [x \in {} |-> 0]
\* An optional value is a sequence: None is <<>>, a value x is <<x>>.
None == <<>>
Some(x) == <<x>>
Unset == "unset"

(***************************************************************************)
(* Enumerations of context.py (the values are the Enum values)             *)
(***************************************************************************)
ChangeType_MAJOR == "MAJOR"
ChangeType_MINOR == "minor"
Compliance_STRICT == "strict"
Compliance_LAX == "lax"
Compliance_NO == "no"
Compliance_ERROR == "error"
BumpType_MAJOR == "major"
BumpType_MINOR == "minor"
BumpType_PATCH == "patch"
BumpType_NONE == "none"
BumpTypes == {BumpType_MAJOR, BumpType_MINOR, BumpType_PATCH, BumpType_NONE}

\* The structural analyzer's key, a judge model's key, and the analyzer name
\* compare_spec_content composes from it and the prompt variant.
Files == "files"
ModelKey == "model-x"
AnalyzerName(base, prompt_name) ==
    IF base = ModelKey /\ prompt_name = "detailed" THEN "model-x(detailed)"
    ELSE "other(other)"

(***************************************************************************)
(* semver.Version: the fields _detect_version_bump reads, and the          *)
(* prerelease tag it does not.                                             *)
(***************************************************************************)
Prereleases == {"", "rc"}
Versions == [major: 0..MaxField, minor: 0..MaxField, patch: 0..MaxField,
             prerelease: Prereleases]
V(a, b, c) == [major |-> a, minor |-> b, patch |-> c, prerelease |-> ""]

(***************************************************************************)
(* context.py: _detect_version_bump                                        *)
(***************************************************************************)
is_major_bump(v1, v2) == v2.major > v1.major
is_minor_bump(v1, v2) == v2.minor > v1.minor /\ v2.major = v1.major
is_patch_bump(v1, v2) ==
    v2.patch > v1.patch /\ v2.major = v1.major /\ v2.minor = v1.minor

\* mutant: the minor test forgets that the majors must be equal
DetectBumpMinorAnyMajor(v1, v2) ==
    IF v1.major = 0
    THEN IF (v2.minor > v1.minor) \/ is_major_bump(v1, v2) THEN BumpType_MAJOR
         ELSE IF is_patch_bump(v1, v2) THEN BumpType_MINOR
         ELSE BumpType_NONE
    ELSE IF is_major_bump(v1, v2) THEN BumpType_MAJOR
         ELSE IF v2.minor > v1.minor THEN BumpType_MINOR
         ELSE IF is_patch_bump(v1, v2) THEN BumpType_PATCH
         ELSE BumpType_NONE

\* mutant: the 0.x branch is missing, every pair is classified by the >=1 rule
DetectBumpNoZeroRule(v1, v2) ==
    IF is_major_bump(v1, v2) THEN BumpType_MAJOR
    ELSE IF is_minor_bump(v1, v2) THEN BumpType_MINOR
    ELSE IF is_patch_bump(v1, v2) THEN BumpType_PATCH
    ELSE BumpType_NONE

_detect_version_bump(v1, v2) ==
    IF v1.major = 0
    THEN IF is_minor_bump(v1, v2) \/ is_major_bump(v1, v2) THEN BumpType_MAJOR
         ELSE IF is_patch_bump(v1, v2) THEN BumpType_MINOR
         ELSE BumpType_NONE
    ELSE IF is_major_bump(v1, v2) THEN BumpType_MAJOR
         ELSE IF is_minor_bump(v1, v2) THEN BumpType_MINOR
         ELSE IF is_patch_bump(v1, v2) THEN BumpType_PATCH
         ELSE BumpType_NONE

(***************************************************************************)
(* context.py: _calculate_compliance.  major_changes and minor_changes are *)
(* lists; "if major_changes" is the list being non-empty.                  *)
(***************************************************************************)
ReasonMajorLax == "Major version bump but no MAJOR changes found."
ReasonMinorNo == "Minor version bump but MAJOR changes found."
ReasonMinorLax == "Minor version bump but no minor changes found."
ReasonPatchNo == "Patch version bump but API changes found."
Verdict(c, r) == [compliance |-> c, reason |-> r]
Strict == Verdict(Compliance_STRICT, "")
UnsetVerdict == Verdict(Unset, "")

\* mutant: in the MINOR branch the missing-minor check runs first
ComplianceMinorLaxFirst(bump_type, major_changes, minor_changes, analyzer) ==
    IF bump_type = BumpType_MAJOR
    THEN IF major_changes = <<>> /\ analyzer # Files
         THEN Verdict(Compliance_LAX, ReasonMajorLax) ELSE Strict
    ELSE IF bump_type = BumpType_MINOR
    THEN IF minor_changes = <<>> /\ analyzer # Files
         THEN Verdict(Compliance_LAX, ReasonMinorLax)
         ELSE IF major_changes # <<>>
         THEN Verdict(Compliance_NO, ReasonMinorNo)
         ELSE Strict
    ELSE IF bump_type = BumpType_PATCH
    THEN IF major_changes # <<>> \/ minor_changes # <<>>
         THEN Verdict(Compliance_NO, ReasonPatchNo) ELSE Strict
    ELSE Strict

\* mutant: the MAJOR branch forgets the exemption of the 'files' analyzer
ComplianceMajorNoExemption(bump_type, major_changes, minor_changes, analyzer) ==
    IF bump_type = BumpType_MAJOR
    THEN IF major_changes = <<>>
         THEN Verdict(Compliance_LAX, ReasonMajorLax) ELSE Strict
    ELSE IF bump_type = BumpType_MINOR
    THEN IF major_changes # <<>>
         THEN Verdict(Compliance_NO, ReasonMinorNo)
         ELSE IF minor_changes = <<>> /\ analyzer # Files
         THEN Verdict(Compliance_LAX, ReasonMinorLax)
         ELSE Strict
    ELSE IF bump_type = BumpType_PATCH
    THEN IF major_changes # <<>> \/ minor_changes # <<>>
         THEN Verdict(Compliance_NO, ReasonPatchNo) ELSE Strict
    ELSE Strict

\* mutant: the PATCH branch looks at the MAJOR changes only
CompliancePatchMajorOnly(bump_type, major_changes, minor_changes, analyzer) ==
    IF bump_type = BumpType_MAJOR
    THEN IF major_changes = <<>> /\ analyzer # Files
         THEN Verdict(Compliance_LAX, ReasonMajorLax) ELSE Strict
    ELSE IF bump_type = BumpType_MINOR
    THEN IF major_changes # <<>>
         THEN Verdict(Compliance_NO, ReasonMinorNo)
         ELSE IF minor_changes = <<>> /\ analyzer # Files
         THEN Verdict(Compliance_LAX, ReasonMinorLax)
         ELSE Strict
    ELSE IF bump_type = BumpType_PATCH
    THEN IF major_changes # <<>>
         THEN Verdict(Compliance_NO, ReasonPatchNo) ELSE Strict
    ELSE Strict

\* mutant: the final branch is an else, so a NONE bump is held to the PATCH rule
ComplianceNoneAsPatch(bump_type, major_changes, minor_changes, analyzer) ==
    IF bump_type = BumpType_MAJOR
    THEN IF major_changes = <<>> /\ analyzer # Files
         THEN Verdict(Compliance_LAX, ReasonMajorLax) ELSE Strict
    ELSE IF bump_type = BumpType_MINOR
    THEN IF major_changes # <<>>
         THEN Verdict(Compliance_NO, ReasonMinorNo)
         ELSE IF minor_changes = <<>> /\ analyzer # Files
         THEN Verdict(Compliance_LAX, ReasonMinorLax)
         ELSE Strict
    ELSE IF major_changes # <<>> \/ minor_changes # <<>>
         THEN Verdict(Compliance_NO, ReasonPatchNo) ELSE Strict

_calculate_compliance(bump_type, major_changes, minor_changes, analyzer) ==
    IF bump_type = BumpType_MAJOR
    THEN IF major_changes = <<>> /\ analyzer # Files
         THEN Verdict(Compliance_LAX, ReasonMajorLax) ELSE Strict
    ELSE IF bump_type = BumpType_MINOR
    THEN IF major_changes # <<>>
         THEN Verdict(Compliance_NO, ReasonMinorNo)
         ELSE IF minor_changes = <<>> /\ analyzer # Files
         THEN Verdict(Compliance_LAX, ReasonMinorLax)
         ELSE Strict
    ELSE IF bump_type = BumpType_PATCH
    THEN IF major_changes # <<>> \/ minor_changes # <<>>
         THEN Verdict(Compliance_NO, ReasonPatchNo) ELSE Strict
    ELSE Strict

(***************************************************************************)
(* context.py: the ledger.  data is self.data['crates'].  Every operation  *)
(* is a function of the ledger; <Op>Raises says when the Python raises     *)
(* (KeyError on a missing key, ValueError on a version that does not       *)
(* parse), in which case the ledger is left as it was.                     *)
(***************************************************************************)
\* A version string is modelled by the semver.Version it parses to; NotSemver
\* is a string semver.Version.parse rejects (ValueError).
NotSemver == [raw |-> "not-semver"]
semver_parses(v) == "major" \in DOMAIN v
\* a release string of four parts: semver.Version.parse rejects it, and
\* int(v.split('.')[0]) is 1
FourPart == [raw |-> "1.0.1.1", first |-> 1]
\* int(v.split('.')[0])
first_part(v) == IF semver_parses(v) THEN v.major ELSE v.first

HasCrate(d, crate) == crate \in DOMAIN d
HasReleases(d, crate) == HasCrate(d, crate) /\ "releases" \in DOMAIN d[crate]
HasRelease(d, crate, version) ==
    HasReleases(d, crate) /\ version \in DOMAIN d[crate]["releases"]
HasDiagnosis(d, crate, version) ==
    HasRelease(d, crate, version)
    /\ "diagnosis" \in DOMAIN d[crate]["releases"][version]
HasAnalyzer(d, crate, version, analyzer) ==
    HasDiagnosis(d, crate, version)
    /\ analyzer \in DOMAIN d[crate]["releases"][version]["diagnosis"]

\* rel_data['diagnosis'], and {} where the chained .get() calls would give {}
DiagnosisOf(d, crate, version) ==
    IF HasDiagnosis(d, crate, version)
    THEN d[crate]["releases"][version]["diagnosis"] ELSE EmptyDict
DiagOf(d, crate, version, analyzer) ==
    d[crate]["releases"][version]["diagnosis"][analyzer]

\* the ledger with rel_data['diagnosis'] of (crate, version) set to diagnosis,
\* creating the crate, its 'releases' and the release when they are missing
WithDiagnosis(d, crate, version, diagnosis) ==
    LET crate_data == IF HasCrate(d, crate) THEN d[crate] ELSE EmptyDict
        releases == IF "releases" \in DOMAIN crate_data
                    THEN crate_data["releases"] ELSE EmptyDict
        rel_data == IF version \in DOMAIN releases
                    THEN releases[version] ELSE EmptyDict
    IN  Put(d, crate,
            Put(crate_data, "releases",
                Put(releases, version, Put(rel_data, "diagnosis", diagnosis))))

\* mutant: start_diagnosis keeps an existing slot instead of replacing it
StartKeepsExisting(d, crate, version, analyzer, from_version) ==
    LET diagnosis == DiagnosisOf(d, crate, version)
        memo == IF from_version # None /\ "from_version" \notin DOMAIN diagnosis
                THEN Put(diagnosis, "from_version", from_version[1])
                ELSE diagnosis
    IN  WithDiagnosis(d, crate, version,
            IF analyzer \in DOMAIN memo THEN memo
            ELSE Put(memo, analyzer, [changes |-> <<>>]))

\* mutant: the from_version given is assigned, not set by default
StartAssignsMemo(d, crate, version, analyzer, from_version) ==
    LET diagnosis == DiagnosisOf(d, crate, version)
        memo == IF from_version # None
                THEN Put(diagnosis, "from_version", from_version[1])
                ELSE diagnosis
    IN  WithDiagnosis(d, crate, version, Put(memo, analyzer, [changes |-> <<>>]))

start_diagnosis(d, crate, version, analyzer, from_version) ==
    LET diagnosis == DiagnosisOf(d, crate, version)
        memo == IF from_version # None /\ "from_version" \notin DOMAIN diagnosis
                THEN Put(diagnosis, "from_version", from_version[1])
                ELSE diagnosis
    IN  WithDiagnosis(d, crate, version, Put(memo, analyzer, [changes |-> <<>>]))

\* ChangeInfo, and the dict emit_change stores for it
ChangeInfo(severity, line, col, description, filename, old_filename) ==
    [severity |-> severity, line |-> line, col |-> col,
     description |-> description, filename |-> filename,
     old_filename |-> old_filename]
change_dict(change) ==
    LET base == [severity |-> change.severity, line |-> change.line,
                 col |-> change.col, description |-> change.description]
        with_new == IF change.filename # ""
                    THEN Put(base, "filename", change.filename) ELSE base
    IN  IF change.old_filename # ""
        THEN Put(with_new, "old_filename", change.old_filename) ELSE with_new

emit_change_raises(d, crate, version, analyzer) ==
    \/ ~HasRelease(d, crate, version)
    \/ /\ HasAnalyzer(d, crate, version, analyzer)
       /\ "changes" \notin DOMAIN DiagOf(d, crate, version, analyzer)
emit_change(d, crate, version, analyzer, change) ==
    LET diagnosis == DiagnosisOf(d, crate, version)
        analyzer_data == IF analyzer \in DOMAIN diagnosis
                         THEN diagnosis[analyzer] ELSE [changes |-> <<>>]
        appended == Put(analyzer_data, "changes",
                        Append(analyzer_data["changes"], change_dict(change)))
    IN  WithDiagnosis(d, crate, version, Put(diagnosis, analyzer, appended))

finish_diagnosis_raises(d, crate, prev_version, curr_version, analyzer) ==
    \/ ~semver_parses(prev_version)
    \/ ~semver_parses(curr_version)
    \/ ~HasAnalyzer(d, crate, curr_version, analyzer)
    \/ "changes" \notin DOMAIN DiagOf(d, crate, curr_version, analyzer)

\* mutant: a strict verdict leaves an earlier 'noncompliance' entry in place
FinishKeepsReason(d, crate, prev_version, curr_version, analyzer) ==
    LET diag == DiagOf(d, crate, curr_version, analyzer)
        major_changes == SelectSeq(diag["changes"],
                                   LAMBDA c : c["severity"] = "MAJOR")
        minor_changes == SelectSeq(diag["changes"],
                                   LAMBDA c : c["severity"] = "minor")
        bump_type == _detect_version_bump(prev_version, curr_version)
        res == _calculate_compliance(bump_type, major_changes, minor_changes,
                                     analyzer)
        verdict == Put(diag, "compliant", res.compliance)
        closed == IF res.compliance \in {Compliance_NO, Compliance_LAX}
                  THEN Put(verdict, "noncompliance", res.reason)
                  ELSE verdict
    IN  WithDiagnosis(d, crate, curr_version,
            Put(DiagnosisOf(d, crate, curr_version), analyzer, closed))

\* mutant: the verdict is computed for the structural analyzer whatever the
\* analyzer that is being closed
FinishAsFiles(d, crate, prev_version, curr_version, analyzer) ==
    LET diag == DiagOf(d, crate, curr_version, analyzer)
        major_changes == SelectSeq(diag["changes"],
                                   LAMBDA c : c["severity"] = "MAJOR")
        minor_changes == SelectSeq(diag["changes"],
                                   LAMBDA c : c["severity"] = "minor")
        bump_type == _detect_version_bump(prev_version, curr_version)
        res == _calculate_compliance(bump_type, major_changes, minor_changes,
                                     Files)
        verdict == Put(diag, "compliant", res.compliance)
        closed == IF res.compliance \in {Compliance_NO, Compliance_LAX}
                  THEN Put(verdict, "noncompliance", res.reason)
                  ELSE Del(verdict, "noncompliance")
    IN  WithDiagnosis(d, crate, curr_version,
            Put(DiagnosisOf(d, crate, curr_version), analyzer, closed))

\* mutant: the verdict is computed from the first change of the list only
FinishFirstChangeOnly(d, crate, prev_version, curr_version, analyzer) ==
    LET diag == DiagOf(d, crate, curr_version, analyzer)
        first == IF diag["changes"] = <<>> THEN <<>>
                 ELSE <<Head(diag["changes"])>>
        major_changes == SelectSeq(first, LAMBDA c : c["severity"] = "MAJOR")
        minor_changes == SelectSeq(first, LAMBDA c : c["severity"] = "minor")
        bump_type == _detect_version_bump(prev_version, curr_version)
        res == _calculate_compliance(bump_type, major_changes, minor_changes,
                                     analyzer)
        verdict == Put(diag, "compliant", res.compliance)
        closed == IF res.compliance \in {Compliance_NO, Compliance_LAX}
                  THEN Put(verdict, "noncompliance", res.reason)
                  ELSE Del(verdict, "noncompliance")
    IN  WithDiagnosis(d, crate, curr_version,
            Put(DiagnosisOf(d, crate, curr_version), analyzer, closed))

finish_diagnosis(d, crate, prev_version, curr_version, analyzer) ==
    LET diag == DiagOf(d, crate, curr_version, analyzer)
        major_changes == SelectSeq(diag["changes"],
                                   LAMBDA c : c["severity"] = "MAJOR")
        minor_changes == SelectSeq(diag["changes"],
                                   LAMBDA c : c["severity"] = "minor")
        bump_type == _detect_version_bump(prev_version, curr_version)
        res == _calculate_compliance(bump_type, major_changes, minor_changes,
                                     analyzer)
        verdict == Put(diag, "compliant", res.compliance)
        closed == IF res.compliance \in {Compliance_NO, Compliance_LAX}
                  THEN Put(verdict, "noncompliance", res.reason)
                  ELSE Del(verdict, "noncompliance")
    IN  WithDiagnosis(d, crate, curr_version,
            Put(DiagnosisOf(d, crate, curr_version), analyzer, closed))

\* mutant: the error verdict is stored without discarding the change list
FinishErrorKeepsChanges(d, crate, curr_version, analyzer, error_message) ==
    LET diag == DiagOf(d, crate, curr_version, analyzer)
        closed == Put(Put(diag, "compliant", Compliance_ERROR),
                      "error_message", error_message)
    IN  WithDiagnosis(d, crate, curr_version,
            Put(DiagnosisOf(d, crate, curr_version), analyzer, closed))

\* mutant: the error message is stored without a verdict
FinishErrorNoVerdict(d, crate, curr_version, analyzer, error_message) ==
    LET diag == DiagOf(d, crate, curr_version, analyzer)
        closed == Put(Del(diag, "changes"), "error_message", error_message)
    IN  WithDiagnosis(d, crate, curr_version,
            Put(DiagnosisOf(d, crate, curr_version), analyzer, closed))

finish_diagnosis_with_error_raises(d, crate, curr_version, analyzer) ==
    ~HasAnalyzer(d, crate, curr_version, analyzer)
finish_diagnosis_with_error(d, crate, curr_version, analyzer, error_message) ==
    LET diag == DiagOf(d, crate, curr_version, analyzer)
        closed == Put(Put(Del(diag, "changes"), "compliant", Compliance_ERROR),
                      "error_message", error_message)
    IN  WithDiagnosis(d, crate, curr_version,
            Put(DiagnosisOf(d, crate, curr_version), analyzer, closed))

\* del ...['diagnosis'][analyzer], the redo of find_pairs and
\* analyze_release_with_model
delete_diagnosis(d, crate, version, analyzer) ==
    WithDiagnosis(d, crate, version,
                  Del(DiagnosisOf(d, crate, version), analyzer))

Get(d, k, default) == IF k \in DOMAIN d THEN d[k] ELSE default

\* add_llm_usage returns early ("if not diag") when the slot is missing or {}
add_llm_usage_skips(d, crate, version, analyzer) ==
    \/ analyzer \notin DOMAIN DiagnosisOf(d, crate, version)
    \/ DiagnosisOf(d, crate, version)[analyzer] = EmptyDict
add_llm_usage(d, crate, version, analyzer, spec_chars, system_chars, cost) ==
    LET diag == DiagOf(d, crate, version, analyzer)
        spec == Get(diag, "llm_spec_chars", 0) + spec_chars
        system == Get(diag, "llm_system_chars", 0) + system_chars
        counted == Put(Put(Put(diag, "llm_spec_chars", spec),
                           "llm_system_chars", system),
                       "llm_chars", spec + system)
        costed == IF cost # None
                  THEN Put(counted, "llm_cost", Get(diag, "llm_cost", 0) + cost[1])
                  ELSE counted
    IN  WithDiagnosis(d, crate, version,
            Put(DiagnosisOf(d, crate, version), analyzer, costed))

\* save(), the write succeeding: lasv.yaml is renamed to lasv.yaml.old when
\* it exists, then the document d is written to lasv.yaml
Save(d) ==
    /\ old' = IF file # None THEN file ELSE old
    /\ file' = Some(d)

(***************************************************************************)
(* Specification SpecBump: _detect_version_bump applied to every pair of   *)
(* versions with fields in 0..MaxField.                                    *)
(***************************************************************************)
LedgerIdle ==
    /\ data = EmptyDict
    /\ file = None
    /\ old = None
\* the local variables of the walker before a run; events, redone and before
\* are history variables: the emit_change calls made since the diagnosis in
\* hand was started, whether redo deleted a slot to start it, and the
\* release's diagnoses as they were before that; the configuration of the
\* run that returned last, the ledger the run in hand started from, the
\* (release, analyzer) whose analysis called the judge and the pairs the walk
\* has analysed
IdleFrame ==
    [pc |-> "idle", mode |-> "none", phase |-> "none",
     v1 |-> None, v2 |-> None, analyzer |-> None, redo |-> FALSE,
     found_count |-> 0, major_found |-> FALSE, minor_found |-> FALSE,
     patch_found |-> FALSE, first_retrieved |-> FALSE, retrieved |-> <<>>,
     all_specs |-> {}, events |-> <<>>, redone |-> FALSE,
     before |-> EmptyDict, last |-> None, start |-> EmptyDict,
     judged |-> {}, pairs |-> <<>>]
\* LasvContext.__init__
NewContext == [model |-> None, model_key |-> None, full |-> FALSE]
NoIndex ==
    [releases |-> <<>>, binary |-> FALSE, external |-> FALSE,
     unavailable |-> {}]
\* save() is not running; before and saved are history variables: the content
\* of lasv.yaml when save() was entered, the ledger of the last save() that
\* returned normally, and what load() made of the document read last
NoSave == [pc |-> "run", before |-> None, saved |-> None, reloaded |-> None]
\* query_model is not running
NoQuery == [pc |-> "idle", retry_count |-> 0, slept |-> <<>>, log |-> <<>>]
WalkerIdle ==
    /\ fp = IdleFrame
    /\ sv = NoSave
    /\ qm = NoQuery
    /\ context = NewContext
    /\ alr = NoIndex
    /\ tree = EmptyDict
    /\ runs = 0

InitBump ==
    /\ in_v1 \in Versions
    /\ in_v2 \in Versions
    /\ out_bump = Unset
    /\ in_bump = Unset /\ in_major = <<>> /\ in_minor = <<>>
    /\ in_analyzer = Unset /\ out_compliance = UnsetVerdict
    /\ LedgerIdle
    /\ WalkerIdle

DetectBump ==
    /\ out_bump = Unset
    /\ in_bump = Unset
    /\ out_bump' = _detect_version_bump(in_v1, in_v2)
    /\ UNCHANGED <<in_v1, in_v2, in_bump, in_major, in_minor, in_analyzer,
                   out_compliance, ledgerVars, pairVars>>

SpecBump == InitBump /\ [][DetectBump]_vars

(***************************************************************************)
(* Specification SpecCompliance: _calculate_compliance applied to every    *)
(* bump type, analyzer and pair of change lists of up to MaxChanges        *)
(* entries.                                                                *)
(***************************************************************************)
SampleChange(severity) ==
    [severity |-> severity, line |-> 0, col |-> 0, description |-> "change"]
ChangeLists(severity) ==
    {[i \in 1..n |-> SampleChange(severity)] : n \in 0..MaxChanges}
KnownAnalyzers == {Files, ModelKey, AnalyzerName(ModelKey, "detailed")}

InitCompliance ==
    /\ in_bump \in BumpTypes
    /\ in_major \in ChangeLists(ChangeType_MAJOR)
    /\ in_minor \in ChangeLists(ChangeType_MINOR)
    /\ in_analyzer \in KnownAnalyzers
    /\ out_compliance = UnsetVerdict
    /\ in_v1 = Unset /\ in_v2 = Unset /\ out_bump = Unset
    /\ LedgerIdle
    /\ WalkerIdle

CalculateCompliance ==
    /\ in_bump # Unset
    /\ out_compliance = UnsetVerdict
    /\ out_compliance' =
           _calculate_compliance(in_bump, in_major, in_minor, in_analyzer)
    /\ UNCHANGED <<in_v1, in_v2, out_bump, in_bump, in_major, in_minor,
                   in_analyzer, ledgerVars, pairVars>>

SpecCompliance == InitCompliance /\ [][CalculateCompliance]_vars

(***************************************************************************)
(* Specification SpecLedger: the operations of LasvContext called in any   *)
(* order on one diagnosis (release v2 against v1, one analyzer) of one     *)
(* crate, as a caller of the class may.  The ledger is new, or was loaded  *)
(* with a closed diagnosis of the other analyzer for the release.  The     *)
(* write of save() succeeds.                                               *)
(***************************************************************************)
MaxEmit == 2         \* emit_change is called while a slot holds fewer changes
Crate == "crate"
LedgerReleases == {V(0, 2, 0), V(1, 2, 1)}
LedgerAnalyzers == {Files, ModelKey}
PrevVersions == Versions \cup {NotSemver}
LedgerChanges ==
    {ChangeInfo(ChangeType_MAJOR, 0, 0, "Public spec file removed: a.ads",
                "", "a.ads"),
     ChangeInfo(ChangeType_MINOR, 3, 1, "added optional parameter",
                "a.ads", "a.ads")}

PureIdle ==
    /\ in_v1 = Unset /\ in_v2 = Unset /\ out_bump = Unset
    /\ in_bump = Unset /\ in_major = <<>> /\ in_minor = <<>>
    /\ in_analyzer = Unset /\ out_compliance = UnsetVerdict

\* the ledger an earlier run leaves after diagnosing version with analyzer
\* and finding one MAJOR change
LoadedLedger(prev, version, analyzer) ==
    LET started == start_diagnosis(EmptyDict, Crate, version, analyzer, None)
        emitted == emit_change(started, Crate, version, analyzer,
                               ChangeInfo(ChangeType_MAJOR, 0, 0,
                                          "Public spec file removed: a.ads",
                                          "", "a.ads"))
    IN  finish_diagnosis(emitted, Crate, prev, version, analyzer)

InitLedger ==
    /\ PureIdle
    /\ fp \in {[IdleFrame EXCEPT !.v1 = Some(prev), !.v2 = Some(version),
                                  !.analyzer = Some(analyzer)] :
                    prev \in PrevVersions, version \in LedgerReleases,
                    analyzer \in LedgerAnalyzers}
    /\ context = NewContext /\ alr = NoIndex /\ tree = EmptyDict /\ runs = 0
    /\ sv = NoSave
    /\ qm = NoQuery
    /\ \/ LedgerIdle
       \/ /\ semver_parses(fp.v1[1])
          /\ \E other \in LedgerAnalyzers \ {fp.analyzer[1]} :
                data = LoadedLedger(fp.v1[1], fp.v2[1], other)
          /\ file = Some(data)
          /\ old = None

LStart ==
    \E version \in {fp.v2[1]}, analyzer \in {fp.analyzer[1]} :
        /\ data' = start_diagnosis(data, Crate, version, analyzer, None)
        /\ Save(data')
        /\ UNCHANGED <<pureVars, pairVars>>

LEmit ==
    \E version \in {fp.v2[1]}, analyzer \in {fp.analyzer[1]},
       change \in LedgerChanges :
        /\ IF emit_change_raises(data, Crate, version, analyzer)
           THEN /\ UNCHANGED data
           ELSE /\ Len(Get(Get(DiagnosisOf(data, Crate, version), analyzer,
                               [changes |-> <<>>]), "changes", <<>>)) < MaxEmit
                /\ data' = emit_change(data, Crate, version, analyzer, change)
        /\ UNCHANGED <<pureVars, pairVars, file, old>>

LFinish ==
    \E prev \in {fp.v1[1]}, curr \in {fp.v2[1]},
       analyzer \in {fp.analyzer[1]} :
        /\ IF finish_diagnosis_raises(data, Crate, prev, curr, analyzer)
           THEN /\ UNCHANGED ledgerVars
           ELSE /\ data' = finish_diagnosis(data, Crate, prev, curr, analyzer)
                /\ Save(data')
        /\ UNCHANGED <<pureVars, pairVars>>

LFinishError ==
    \E curr \in {fp.v2[1]}, analyzer \in {fp.analyzer[1]} :
        /\ IF finish_diagnosis_with_error_raises(data, Crate, curr, analyzer)
           THEN /\ UNCHANGED ledgerVars
           ELSE /\ data' = finish_diagnosis_with_error(data, Crate, curr,
                                                       analyzer, "error")
                /\ Save(data')
        /\ UNCHANGED <<pureVars, pairVars>>

NextLedger == LStart \/ LEmit \/ LFinish \/ LFinishError

SpecLedger == InitLedger /\ [][NextLedger]_vars

(***************************************************************************)
(* Specification Spec: runs of the walker, one after the other, over one   *)
(* crate of the Alire index.  A run is find_pairs under a run              *)
(* configuration (model, full, redo) or analyze_release_with_model for one *)
(* release; it loads lasv.yaml, and what it holds in memory is lost when   *)
(* it ends.  The ledger is lasv.context.LasvContext, the class releases.py *)
(* and specs.py import.  The index lists full MAJOR.MINOR.PATCH versions,  *)
(* on which fix_version changes nothing; alr answers and retrieve()        *)
(* succeeds; the write of save() succeeds.  The index and the sources do   *)
(* not change between runs.                                                *)
(***************************************************************************)
MaxRuns == 2         \* runs started in one behaviour

Models == {ModelKey}
normalize_model_name(model) ==
    IF model = "model-x:free" THEN "model-x" ELSE model

\* Source files: get_specs lists the *.ads files that are present; a file is
\* a private package or not, larger than MAX_SPEC_BYTES or not, and has a text.
SpecFiles == {"a.ads"}
SourceFile(present, private, big, text) ==
    [present |-> present, private |-> private, big |-> big, text |-> text]
Absent == SourceFile(FALSE, FALSE, FALSE, "")
FileStates ==
    {Absent,
     SourceFile(TRUE, TRUE, FALSE, "private package A is end A;"),
     SourceFile(TRUE, FALSE, FALSE, "package A is end A;"),
     SourceFile(TRUE, FALSE, FALSE, "package A is procedure P; end A;"),
     SourceFile(TRUE, FALSE, TRUE, "package A is -- more than 64 KiB")}
get_specs(sources) == {spec \in SpecFiles : sources[spec].present}
is_private_package(source) == source.private
exceeds_max_spec_bytes(source) == source.big
_get_public_spec(source) == source.text

\* retrieve(): alr get puts the sources of a release under releases/; when
\* it fails, what was downloaded is removed and get_specs finds no file
Index(history, binary, external, unavailable) ==
    [releases |-> history, binary |-> binary, external |-> external,
     unavailable |-> unavailable]
retrieved_sources(version) ==
    IF version \in alr.unavailable THEN [spec \in SpecFiles |-> Absent]
    ELSE tree[version]

Range(seq) == {seq[i] : i \in 1..Len(seq)}
VP(a, b, c, pre) == [major |-> a, minor |-> b, patch |-> c, prerelease |-> pre]
Histories ==
    {<<V(0, 1, 0)>>,
     <<V(1, 0, 0), V(1, 1, 0)>>,
     <<V(0, 2, 0), V(1, 0, 0), V(2, 0, 0)>>,
     <<V(1, 0, 0), V(1, 0, 1), V(1, 0, 2)>>,
     <<VP(1, 0, 0, "rc"), V(1, 0, 0), V(1, 1, 0)>>,
     <<V(1, 0, 0), FourPart, V(1, 1, 0)>>,
     <<V(0, 0, 1), V(0, 1, 0)>>}

\* mutant: an index that answers with the version it was asked about
FindSameVersion(releases, version) == Some(version)

\* alr show crate<version: the release listed just before version, if any
find_previous_version(releases, version) ==
    LET i == CHOOSE k \in 1..Len(releases) : releases[k] = version
    IN  IF i > 1 THEN Some(releases[i - 1]) ELSE None

\* load(): the 'crates' dict of lasv.yaml, {} when there is no file
load(f) == IF f = None THEN EmptyDict ELSE f[1]

\* list_crate(): asks alr about a crate that is not in the ledger yet; alr
\* show fails for an external crate, which then gets no last_version
list_crate(d, index) ==
    IF Crate \in DOMAIN d THEN d
    ELSE IF index.external
         THEN Put(d, Crate, [binary |-> FALSE, external |-> TRUE])
         ELSE Put(d, Crate,
                  [last_version |-> index.releases[Len(index.releases)],
                   binary |-> index.binary, external |-> FALSE])

\* the setdefault chain of analyze_release_with_model
ensure_release(d, crate, version) ==
    LET crate_data == IF HasCrate(d, crate) THEN d[crate] ELSE EmptyDict
        releases == IF "releases" \in DOMAIN crate_data
                    THEN crate_data["releases"] ELSE EmptyDict
        rel_data == IF version \in DOMAIN releases
                    THEN releases[version] ELSE EmptyDict
    IN  Put(d, crate, Put(crate_data, "releases", Put(releases, version, rel_data)))

\* What a comparison does: nothing, one emit_change, or an exception.
NoChange == [kind |-> "none"]
Emits(analyzer, change) ==
    [kind |-> "emit", analyzer |-> analyzer, change |-> change]
Raises(message) == [kind |-> "raise", message |-> message]

\* specs.py 103-105 calls llm.query_model with four positional arguments
\* (model, old text, new text, prompt name); llm.py 23-25 declares three
\* parameters (model, spec1_content, spec2_content).  The call raises
\* TypeError before the body of query_model runs, so no request is sent and
\* lines 106-172 of compare_spec_content are not reached.
query_model_call ==
    Raises("query_model() takes 3 positional arguments but 4 were given")

\* mutant: the sizes of the files are not looked at
CompareContentAnySize(model, source1, source2) ==
    IF model = None THEN NoChange
    ELSE IF _get_public_spec(source1) = _get_public_spec(source2) THEN NoChange
    ELSE query_model_call

compare_spec_content(model, source1, source2) ==
    IF model = None THEN NoChange
    ELSE IF exceeds_max_spec_bytes(source1) \/ exceeds_max_spec_bytes(source2)
    THEN NoChange
    ELSE IF _get_public_spec(source1) = _get_public_spec(source2) THEN NoChange
    ELSE query_model_call

compare_spec_files(model, spec, source1, source2) ==
    IF ~source1.present
    THEN IF source2.present /\ is_private_package(source2) THEN NoChange
         ELSE IF model = None /\ source2.present
         THEN Emits(Files, ChangeInfo(ChangeType_MINOR, 0, 0,
                                      "Public spec file added: " \o spec,
                                      spec, ""))
         ELSE NoChange
    ELSE IF ~source2.present
    THEN IF is_private_package(source1) THEN NoChange
         ELSE IF model = None
         THEN Emits(Files, ChangeInfo(ChangeType_MAJOR, 0, 0,
                                      "Public spec file removed: " \o spec,
                                      "", spec))
         ELSE NoChange
    ELSE IF is_private_package(source1) /\ is_private_package(source2)
    THEN NoChange
    ELSE IF is_private_package(source1) # is_private_package(source2)
    THEN Emits(Files,
               ChangeInfo(IF is_private_package(source1)
                          THEN ChangeType_MINOR ELSE ChangeType_MAJOR, 0, 0,
                          (IF is_private_package(source1)
                           THEN "Public spec file added: "
                           ELSE "Public spec file removed: ") \o spec,
                          spec, spec))
    ELSE compare_spec_content(model, source1, source2)

\* mutant: the test of the older version against 1 is missing
SkipsPairNoPreOne(frame, ctx, v1, v2) ==
    IF ctx.full THEN FALSE
    ELSE IF ~semver_parses(v1) \/ ~semver_parses(v2) THEN TRUE
    ELSE LET bump_type == _detect_version_bump(v1, v2)
         IN  \/ bump_type = BumpType_MAJOR /\ frame.major_found
             \/ bump_type = BumpType_MINOR /\ frame.minor_found
             \/ bump_type = BumpType_PATCH /\ frame.patch_found
             \/ bump_type = BumpType_NONE

\* mutant: the PATCH branch does not look at patch_found
SkipsPairPatchAgain(frame, ctx, v1, v2) ==
    IF first_part(v1) < 1 THEN TRUE
    ELSE IF ctx.full THEN FALSE
    ELSE IF ~semver_parses(v1) \/ ~semver_parses(v2) THEN TRUE
    ELSE LET bump_type == _detect_version_bump(v1, v2)
         IN  \/ bump_type = BumpType_MAJOR /\ frame.major_found
             \/ bump_type = BumpType_MINOR /\ frame.minor_found
             \/ bump_type = BumpType_NONE

\* find_pairs 380-423: the pair is passed over ("continue")
skips_pair(frame, ctx, v1, v2) ==
    IF first_part(v1) < 1 THEN TRUE
    ELSE IF ctx.full THEN FALSE
    \* ValueError: bump_type = None, the final else
    ELSE IF ~semver_parses(v1) \/ ~semver_parses(v2) THEN TRUE
    ELSE LET bump_type == _detect_version_bump(v1, v2)
         IN  \/ bump_type = BumpType_MAJOR /\ frame.major_found
             \/ bump_type = BumpType_MINOR /\ frame.minor_found
             \/ bump_type = BumpType_PATCH /\ frame.patch_found
             \/ bump_type = BumpType_NONE

\* the analyzer key of the diagnosis in hand
model_key_of(ctx) ==
    IF ctx.model_key # None THEN ctx.model_key[1] ELSE ctx.model[1]
phase_analyzer(frame, ctx) ==
    IF frame.phase = "files" THEN Files ELSE model_key_of(ctx)

\* mutant: an existing slot is deleted and diagnosed again whether or not
\* redo was asked for
RedoAlways(frame, ctx, exists) == exists

\* redo deletes the slot: find_pairs 442 and 470, analyze_release_with_model 324
redo_applies(frame, ctx, exists) ==
    IF frame.phase = "files"
    THEN frame.redo /\ exists /\ ctx.model = None
    ELSE frame.redo /\ exists

\* mutant: redo reopens the slot it finds, keeping its changes, instead of
\* deleting it
RedoReopens(d, crate, version, analyzer, delete) ==
    IF delete
    THEN LET diag == DiagOf(d, crate, version, analyzer)
         IN  WithDiagnosis(d, crate, version,
                 Put(DiagnosisOf(d, crate, version), analyzer,
                     [changes |-> Get(diag, "changes", <<>>)]))
    ELSE start_diagnosis(d, crate, version, analyzer, None)

\* the del of redo, when it applies, then start_diagnosis
begin_diagnosis(d, crate, version, analyzer, delete) ==
    start_diagnosis(IF delete THEN delete_diagnosis(d, crate, version, analyzer)
                    ELSE d,
                    crate, version, analyzer, None)

Init ==
    /\ PureIdle
    /\ LedgerIdle
    /\ fp = IdleFrame
    /\ sv = NoSave
    /\ qm = NoQuery
    /\ context = NewContext
    /\ runs = 0
    /\ \E history \in Histories :
          /\ alr \in {Index(history, FALSE, FALSE, {}),
                      Index(history, TRUE, FALSE, {}),
                      Index(history, FALSE, TRUE, {})}
          /\ tree \in [Range(history) -> [SpecFiles -> FileStates]]

\* a run of find_pairs: load(), the run configuration, list_crate(), and
\* find_pairs up to its loop
FindPairs ==
    /\ fp.pc = "idle"
    /\ runs < MaxRuns
    /\ \E model \in {None} \cup {Some(m) : m \in Models},
          full \in BOOLEAN, redo \in BOOLEAN :
          LET listed == list_crate(load(file), alr)
              crate_info == listed[Crate]
              started == [IdleFrame EXCEPT !.mode = "find_pairs", !.redo = redo,
                                           !.last = fp.last, !.start = listed]
          IN  /\ context' = [model |-> model, model_key |-> None, full |-> full]
              /\ data' = listed
              /\ fp' = IF Get(crate_info, "external", FALSE)
                          \/ Get(crate_info, "binary", FALSE)
                       THEN [started EXCEPT !.pc = "return"]
                       ELSE IF "last_version" \notin DOMAIN crate_info
                       THEN IdleFrame   \* fix_version(None) raises TypeError
                       ELSE IF crate_info["last_version"] = V(0, 1, 0)
                       THEN [started EXCEPT !.pc = "return"]
                       ELSE [started EXCEPT !.pc = "walk",
                                            !.v2 = Some(crate_info["last_version"])]
    /\ runs' = runs + 1
    /\ UNCHANGED <<pureVars, file, old, alr, tree, sv, qm>>

\* a run of analyze_release_with_model (redo=True), up to its try block; the
\* viewer calls it for a release shown in its tree, that is a release of
\* lasv.yaml
AnalyzeRelease ==
    /\ fp.pc = "idle"
    /\ runs < MaxRuns
    /\ \E version \in Range(alr.releases), model \in Models :
          LET loaded == load(file)
              v1 == find_previous_version(alr.releases, version)
              started == [IdleFrame EXCEPT !.mode = "analyze", !.redo = TRUE,
                                           !.last = fp.last, !.start = loaded]
          IN  /\ HasRelease(loaded, Crate, version)
              /\ IF v1 = None \/ (v1 # None /\ first_part(v1[1]) < 1)
                 THEN /\ data' = loaded
                      /\ context' = NewContext
                      /\ fp' = [started EXCEPT !.pc = "return"]
                 ELSE /\ data' = ensure_release(loaded, Crate, version)
                      /\ context' = [model |-> Some(model),
                                     model_key |->
                                         Some(normalize_model_name(model)),
                                     full |-> FALSE]
                      /\ fp' = [started EXCEPT
                             !.pc = "begin", !.phase = "model",
                             !.v1 = v1, !.v2 = Some(version),
                             !.retrieved = <<version, v1[1]>>]
    /\ runs' = runs + 1
    /\ UNCHANGED <<pureVars, file, old, alr, tree, sv, qm>>

\* find_pairs 373-378: no release before v2
NoPrevious ==
    /\ fp.pc = "walk"
    /\ find_previous_version(alr.releases, fp.v2[1]) = None
    /\ fp' = [fp EXCEPT !.pc = "return"]
    /\ UNCHANGED <<pureVars, ledgerVars, context, alr, tree, runs, sv, qm>>

\* find_pairs 380-423: the pair is passed over and the walk goes on from v1
SkipPair ==
    /\ fp.pc = "walk"
    /\ LET v1 == find_previous_version(alr.releases, fp.v2[1])
       IN  /\ v1 # None
           /\ skips_pair(fp, context, v1[1], fp.v2[1])
           /\ fp' = [fp EXCEPT !.v2 = v1]
    /\ UNCHANGED <<pureVars, ledgerVars, context, alr, tree, runs, sv, qm>>

\* mutant: both releases of every analysed pair are retrieved
RetrievesBoth(first_retrieved, v1, v2) == <<v2, v1>>

\* find_pairs 427-430: the calls of retrieve() for an analysed pair, in order
retrievals(first_retrieved, v1, v2) ==
    IF first_retrieved THEN <<v1>> ELSE <<v2, v1>>

\* find_pairs 387-430: the pair is counted and its sources are retrieved
FoundPair ==
    /\ fp.pc = "walk"
    /\ LET v1 == find_previous_version(alr.releases, fp.v2[1])
           v2 == fp.v2[1]
       IN  /\ v1 # None
           /\ ~skips_pair(fp, context, v1[1], v2)
           /\ LET bump_type == IF context.full THEN "None"
                               ELSE _detect_version_bump(v1[1], v2)
              IN  fp' = [fp EXCEPT
                     !.v1 = v1,
                     !.major_found = @ \/ bump_type = BumpType_MAJOR,
                     !.minor_found = @ \/ bump_type = BumpType_MINOR,
                     !.patch_found = @ \/ bump_type = BumpType_PATCH,
                     !.found_count = @ + 1,
                     !.pairs = Append(@, <<v1[1], v2>>),
                     !.first_retrieved = TRUE,
                     !.retrieved = @ \o retrievals(fp.first_retrieved,
                                                   v1[1], v2),
                     !.pc = "begin", !.phase = "files"]
    /\ UNCHANGED <<pureVars, ledgerVars, context, alr, tree, runs, sv, qm>>

\* find_pairs 434-449 and 462-477, analyze_release_with_model 323-329: the
\* slot is missing, or redo deletes it; start_diagnosis, then compare_specs
\* lists the files of the two releases
BeginDiagnosis ==
    /\ fp.pc = "begin"
    /\ LET version == fp.v2[1]
           analyzer == phase_analyzer(fp, context)
           exists == HasAnalyzer(data, Crate, version, analyzer)
           delete == redo_applies(fp, context, exists)
       IN  /\ delete \/ ~exists \/ fp.mode = "analyze"
           /\ data' = begin_diagnosis(data, Crate, version, analyzer, delete)
           /\ Save(data')
           /\ fp' = [fp EXCEPT
                  !.pc = "compare", !.analyzer = Some(analyzer),
                  !.all_specs = get_specs(retrieved_sources(fp.v1[1]))
                                \cup get_specs(retrieved_sources(version)),
                  !.events = <<>>, !.redone = delete,
                  !.before = DiagnosisOf(data, Crate, version)]
    /\ UNCHANGED <<pureVars, context, alr, tree, runs, sv, qm>>

\* find_pairs 452-453 and 480-481: the diagnosis exists and is kept
SkipDiagnosis ==
    /\ fp.pc = "begin"
    /\ fp.mode = "find_pairs"
    /\ LET version == fp.v2[1]
           analyzer == phase_analyzer(fp, context)
           exists == HasAnalyzer(data, Crate, version, analyzer)
       IN  /\ exists
           /\ ~redo_applies(fp, context, exists)
           /\ fp' = [fp EXCEPT !.pc = "closed", !.analyzer = Some(analyzer),
                               !.all_specs = {}, !.events = <<>>,
                               !.redone = FALSE, !.before = EmptyDict]
    /\ UNCHANGED <<pureVars, ledgerVars, context, alr, tree, runs, sv, qm>>

\* what compare_spec_files does for one file of the pair in hand
Outcome(spec) ==
    compare_spec_files(context.model, spec,
                       retrieved_sources(fp.v1[1])[spec],
                       retrieved_sources(fp.v2[1])[spec])
OutcomeRaises(out) ==
    \/ out.kind = "raise"
    \/ /\ out.kind = "emit"
       /\ emit_change_raises(data, Crate, fp.v2[1], out.analyzer)

\* "except Exception as e": finish_diagnosis_with_error for the diagnosis in
\* hand; a KeyError raised there leaves the run with a traceback
HandleError(message) ==
    IF finish_diagnosis_with_error_raises(data, Crate, fp.v2[1], fp.analyzer[1])
    THEN /\ fp' = IdleFrame
         /\ context' = NewContext
         /\ UNCHANGED ledgerVars
    ELSE /\ data' = finish_diagnosis_with_error(data, Crate, fp.v2[1],
                                                fp.analyzer[1], message)
         /\ Save(data')
         /\ fp' = [fp EXCEPT
                !.pc = "closed", !.all_specs = {},
                !.judged = IF message = query_model_call.message
                           THEN @ \cup {<<fp.v2[1], fp.analyzer[1]>>} ELSE @]
         /\ UNCHANGED context

\* compare_specs 155-158: one compare_spec_files call that returns
CompareFile ==
    /\ fp.pc = "compare"
    /\ \E spec \in fp.all_specs :
          LET out == Outcome(spec)
          IN  /\ ~OutcomeRaises(out)
              /\ IF out.kind = "emit"
                 THEN /\ data' = emit_change(data, Crate, fp.v2[1],
                                             out.analyzer, out.change)
                      /\ fp' = [fp EXCEPT
                             !.all_specs = @ \ {spec},
                             !.events = Append(@,
                                 [analyzer |-> out.analyzer,
                                  change |-> change_dict(out.change)])]
                 ELSE /\ UNCHANGED data
                      /\ fp' = [fp EXCEPT !.all_specs = @ \ {spec}]
    /\ UNCHANGED <<pureVars, file, old, context, alr, tree, runs, sv, qm>>

\* one compare_spec_files call that raises, and the except clause
CompareRaises ==
    /\ fp.pc = "compare"
    /\ \E spec \in fp.all_specs :
          LET out == Outcome(spec)
          IN  /\ OutcomeRaises(out)
              /\ HandleError(IF out.kind = "raise" THEN out.message
                             ELSE "'changes'")
    /\ UNCHANGED <<pureVars, alr, tree, runs, sv, qm>>

\* every file is compared: finish_diagnosis, or the except clause if it raises
FinishDiagnosis ==
    /\ fp.pc = "compare"
    /\ fp.all_specs = {}
    /\ IF finish_diagnosis_raises(data, Crate, fp.v1[1], fp.v2[1], fp.analyzer[1])
       THEN HandleError("finish_diagnosis raised")
       ELSE /\ data' = finish_diagnosis(data, Crate, fp.v1[1], fp.v2[1],
                                        fp.analyzer[1])
            /\ Save(data')
            /\ fp' = [fp EXCEPT !.pc = "closed"]
            /\ UNCHANGED context
    /\ UNCHANGED <<pureVars, alr, tree, runs, sv, qm>>

\* after a diagnosis: the judge's diagnosis of the pair if a model is set
\* (find_pairs 460), else the end of the pair (488-494) or of the analysis
EndDiagnosis ==
    /\ fp.pc = "closed"
    /\ fp' = IF fp.mode = "analyze" THEN [fp EXCEPT !.pc = "return"]
             ELSE IF fp.phase = "files" /\ context.model # None
             THEN [fp EXCEPT !.pc = "begin", !.phase = "model"]
             ELSE IF ~context.full /\ fp.major_found /\ fp.minor_found
                     /\ fp.patch_found
             THEN [fp EXCEPT !.pc = "return"]
             ELSE [fp EXCEPT !.pc = "walk", !.v2 = fp.v1]
    /\ UNCHANGED <<pureVars, ledgerVars, context, alr, tree, runs, sv, qm>>

\* the run returns; lasv_main saves the ledger after find_pairs
Return ==
    /\ fp.pc = "return"
    /\ IF fp.mode = "find_pairs" THEN Save(data) ELSE UNCHANGED <<file, old>>
    /\ fp' = [IdleFrame EXCEPT
           !.last = Some([mode |-> fp.mode, model |-> context.model,
                          full |-> context.full, redo |-> fp.redo])]
    /\ context' = NewContext
    /\ UNCHANGED <<pureVars, data, alr, tree, runs, sv, qm>>

Next ==
    \/ FindPairs
    \/ AnalyzeRelease
    \/ NoPrevious
    \/ SkipPair
    \/ FoundPair
    \/ BeginDiagnosis
    \/ SkipDiagnosis
    \/ CompareFile
    \/ CompareRaises
    \/ FinishDiagnosis
    \/ EndDiagnosis
    \/ Return

Spec == Init /\ [][Next]_vars

(***************************************************************************)
(* Specification SpecDisk: save() step by step (context.py 296-308), the   *)
(* process that runs it, and the load() of the process started after it.   *)
(* The methods that end in self.save() run on one diagnosis; the process   *)
(* can be interrupted between any two steps, and the write can fail.       *)
(* A document on disk is identified with the ledger it was dumped from     *)
(* (SpecYaml checks that conversion); Truncated is a document whose write  *)
(* did not complete.                                                       *)
(***************************************************************************)
DiskPrev == V(1, 0, 0)
DiskVersion == V(1, 1, 0)
DiskChange ==
    ChangeInfo(ChangeType_MAJOR, 0, 0, "Public spec file removed: a.ads",
               "", "a.ads")
Truncated == [truncated |-> "document"]

\* save(), lines 298-299: lasv.yaml is renamed to lasv.yaml.old when it
\* exists; the result is <<lasv.yaml, lasv.yaml.old>>
save_rename(f, o) == IF f # None THEN <<None, f>> ELSE <<None, o>>

\* save(), lines 304-307: the write raised, leaving lasv.yaml as written
\* (absent when open() failed, truncated when the dump failed); lasv.yaml.old
\* is renamed back when it exists, whatever it holds
save_restore(written, o) == IF o # None THEN <<o, None>> ELSE <<written, o>>

InitDisk ==
    /\ PureIdle
    /\ LedgerIdle
    /\ fp = [IdleFrame EXCEPT !.v1 = Some(DiskPrev), !.v2 = Some(DiskVersion),
                              !.analyzer = Some(Files)]
    /\ context = NewContext /\ alr = NoIndex /\ tree = EmptyDict /\ runs = 0
    /\ sv = NoSave
    /\ qm = NoQuery

\* start_diagnosis, finish_diagnosis or finish_diagnosis_with_error up to its
\* call of self.save()
DMethod ==
    /\ sv.pc = "run"
    /\ \/ data' = start_diagnosis(data, Crate, DiskVersion, Files, None)
       \/ /\ ~finish_diagnosis_raises(data, Crate, DiskPrev, DiskVersion, Files)
          /\ data' = finish_diagnosis(data, Crate, DiskPrev, DiskVersion, Files)
       \/ /\ ~finish_diagnosis_with_error_raises(data, Crate, DiskVersion, Files)
          /\ data' = finish_diagnosis_with_error(data, Crate, DiskVersion,
                                                 Files, "error")
    /\ sv' = [sv EXCEPT !.pc = "save", !.before = file]
    /\ UNCHANGED <<pureVars, file, old, fp, context, alr, tree, runs, qm>>

\* emit_change, which does not save
DEmit ==
    /\ sv.pc = "run"
    /\ ~emit_change_raises(data, Crate, DiskVersion, Files)
    /\ Len(Get(Get(DiagnosisOf(data, Crate, DiskVersion), Files,
                   [changes |-> <<>>]), "changes", <<>>)) < MaxEmit
    /\ data' = emit_change(data, Crate, DiskVersion, Files, DiskChange)
    /\ UNCHANGED <<pureVars, file, old, pairVars>>

\* lines 297-299
DRename ==
    /\ sv.pc = "save"
    /\ file' = save_rename(file, old)[1]
    /\ old' = save_rename(file, old)[2]
    /\ sv' = [sv EXCEPT !.pc = "renamed"]
    /\ UNCHANGED <<pureVars, data, fp, context, alr, tree, runs, qm>>

\* lines 301-303, the write succeeding
DWrite ==
    /\ sv.pc = "renamed"
    /\ file' = Some(data)
    /\ sv' = [sv EXCEPT !.pc = "run", !.saved = Some(data)]
    /\ UNCHANGED <<pureVars, data, old, fp, context, alr, tree, runs, qm>>

\* lines 301-307, the write raising: the except clause restores and re-raises
DWriteFails ==
    /\ sv.pc = "renamed"
    /\ \E written \in {None, Some(Truncated)} :
        /\ file' = save_restore(written, old)[1]
        /\ old' = save_restore(written, old)[2]
    /\ sv' = [sv EXCEPT !.pc = "raised"]
    /\ UNCHANGED <<pureVars, data, fp, context, alr, tree, runs, qm>>

\* the caller of save() receives the error: find_pairs catches it and goes on
\* (releases.py 454), the save() its handler makes is not guarded
DReraised ==
    /\ sv.pc = "raised"
    /\ \E caught \in BOOLEAN :
        /\ sv' = [sv EXCEPT !.pc = IF caught THEN "run" ELSE "down"]
        /\ data' = IF caught THEN data ELSE EmptyDict
    /\ UNCHANGED <<pureVars, file, old, fp, context, alr, tree, runs, qm>>

\* the process is interrupted between two steps; its memory is lost
DInterrupt ==
    /\ sv.pc \in {"run", "save", "renamed"}
    /\ sv' = [sv EXCEPT !.pc = "down"]
    /\ data' = EmptyDict
    /\ UNCHANGED <<pureVars, file, old, fp, context, alr, tree, runs, qm>>

\* LasvContext() and load() of the next process (context.py 118-129)
DLoad ==
    /\ sv.pc = "down"
    /\ file # Some(Truncated)
    /\ data' = load(file)
    /\ sv' = [sv EXCEPT !.pc = "run"]
    /\ UNCHANGED <<pureVars, file, old, fp, context, alr, tree, runs, qm>>

\* load() of a truncated document: yaml.safe_load raises, the process ends
DLoadCorrupt ==
    /\ sv.pc = "down"
    /\ file = Some(Truncated)
    /\ sv' = [sv EXCEPT !.pc = "unreadable"]
    /\ UNCHANGED <<pureVars, ledgerVars, fp, context, alr, tree, runs, qm>>

NextDisk ==
    \/ DMethod
    \/ DEmit
    \/ DRename
    \/ DWrite
    \/ DWriteFails
    \/ DReraised
    \/ DInterrupt
    \/ DLoad
    \/ DLoadCorrupt

SpecDisk == InitDisk /\ [][NextDisk]_vars

(***************************************************************************)
(* Specification SpecYaml: the ledger written with yaml.safe_dump          *)
(* (context.py 303) and read back with yaml.safe_load (context.py 122).    *)
(* A Python value is a tree of tagged nodes, a document a tree of YAML     *)
(* nodes whose scalars carry a style; a plain scalar gets its type back    *)
(* from the implicit resolver, a quoted one is a str.  The methods of      *)
(* LasvContext run in any order on one diagnosis, each saving as the code  *)
(* does, and load() can read the document at any time.                     *)
(***************************************************************************)
MaxUsage == 1        \* add_llm_usage is called while a counter is below
MaxYamlInt == 9      \* the implicit resolver knows the integers 0..MaxYamlInt

Py(tag, text) == [tag |-> tag, text |-> text]
PyDict(items) == [tag |-> "dict", items |-> items]
PyList(items) == [tag |-> "list", items |-> items]
PyStr(text) == Py("str", text)
PyInt(n) == Py("int", ToString(n))
PyFloat(n) == Py("float", ToString(n) \o ".0")
PyBool(b) == Py("bool", IF b THEN "True" ELSE "False")

\* str(version): the key a release has in the ledger
VersionText(v) ==
    IF ~semver_parses(v) THEN v.raw
    ELSE ToString(v.major) \o "." \o ToString(v.minor) \o "."
         \o ToString(v.patch)
         \o (IF v.prerelease = "" THEN "" ELSE "-" \o v.prerelease)

\* self.data as Python holds it: {'crates': {crate: {...}}}
TypedChange(change) ==
    PyDict({<<PyStr(k), IF k \in {"line", "col"} THEN PyInt(change[k])
                        ELSE PyStr(change[k])>> : k \in DOMAIN change})
TypedSlot(diag) ==
    PyDict({<<PyStr(k),
              IF k = "changes"
              THEN PyList([i \in DOMAIN diag[k] |-> TypedChange(diag[k][i])])
              ELSE IF k \in {"llm_spec_chars", "llm_system_chars", "llm_chars"}
              THEN PyInt(diag[k])
              ELSE IF k = "llm_cost" THEN PyFloat(diag[k])
              ELSE PyStr(diag[k])>> : k \in DOMAIN diag})
TypedDiagnosis(diagnosis) ==
    PyDict({<<PyStr(k), IF k = "from_version"
                        THEN PyStr(VersionText(diagnosis[k]))
                        ELSE TypedSlot(diagnosis[k])>> : k \in DOMAIN diagnosis})
TypedRelease(rel_data) ==
    PyDict({<<PyStr(k), TypedDiagnosis(rel_data[k])>> : k \in DOMAIN rel_data})
TypedCrate(crate_data) ==
    PyDict({<<PyStr(k),
              IF k = "releases"
              THEN PyDict({<<PyStr(VersionText(v)),
                             TypedRelease(crate_data[k][v])>> :
                                v \in DOMAIN crate_data[k]})
              ELSE IF k = "last_version"
              THEN PyStr(VersionText(crate_data[k]))
              ELSE PyBool(crate_data[k])>> : k \in DOMAIN crate_data})
TypedLedger(d) ==
    PyDict({<<PyStr("crates"),
              PyDict({<<PyStr(c), TypedCrate(d[c])>> : c \in DOMAIN d})>>})

\* YAML nodes
YamlScalar(style, text) == [node |-> "scalar", style |-> style, text |-> text]
YamlMapping(items) == [node |-> "mapping", items |-> items]
YamlSequence(items) == [node |-> "sequence", items |-> items]
YamlError == Py("error", "yaml.YAMLError")

\* the implicit resolvers of YAML 1.1 as PyYAML registers them
YamlTrue == {"yes", "Yes", "YES", "true", "True", "TRUE", "on", "On", "ON"}
YamlFalse == {"no", "No", "NO", "false", "False", "FALSE", "off", "Off", "OFF"}
YamlNull == {"", "~", "null", "Null", "NULL"}
YamlInts == {ToString(n) : n \in 0..MaxYamlInt}
YamlFloats == {ToString(n) \o ".0" : n \in 0..MaxYamlInt}
resolve(text) ==
    IF text \in YamlTrue \cup YamlFalse THEN "bool"
    ELSE IF text \in YamlNull THEN "null"
    ELSE IF text \in YamlInts THEN "int"
    ELSE IF text \in YamlFloats THEN "float"
    ELSE "str"

\* analyze_scalar on the strings of the model: the empty string and the
\* descriptions holding ": " cannot be written plain
HasIndicator(text) ==
    text \in {""} \cup {prefix \o spec :
                           prefix \in {"Public spec file added: ",
                                       "Public spec file removed: "},
                           spec \in SpecFiles}

\* mutant: every str is written plain
StylePlain(text) == "plain"

\* choose_scalar_style for a str: plain only when the plain text resolves to
\* a str again and holds no indicator
choose_scalar_style(text) ==
    IF resolve(text) = "str" /\ ~HasIndicator(text) THEN "plain" ELSE "single"

RECURSIVE safe_dump(_)
safe_dump(value) ==
    IF value.tag = "dict"
    THEN YamlMapping({<<safe_dump(item[1]), safe_dump(item[2])>> :
                          item \in value.items})
    ELSE IF value.tag = "list"
    THEN YamlSequence([i \in DOMAIN value.items |-> safe_dump(value.items[i])])
    ELSE IF value.tag = "str"
    THEN YamlScalar(choose_scalar_style(value.text), value.text)
    ELSE IF value.tag = "bool"
    THEN YamlScalar("plain", IF value.text = "True" THEN "true" ELSE "false")
    ELSE YamlScalar("plain", value.text)

RECURSIVE safe_load(_)
safe_load(doc) ==
    IF doc.node = "mapping"
    THEN PyDict({<<safe_load(item[1]), safe_load(item[2])>> :
                     item \in doc.items})
    ELSE IF doc.node = "sequence"
    THEN PyList([i \in DOMAIN doc.items |-> safe_load(doc.items[i])])
    ELSE IF doc.style # "plain" THEN PyStr(doc.text)
    ELSE IF HasIndicator(doc.text) /\ doc.text # "" THEN YamlError
    ELSE IF resolve(doc.text) = "bool"
    THEN PyBool(doc.text \in YamlTrue)
    ELSE IF resolve(doc.text) = "null" THEN Py("NoneType", "None")
    ELSE Py(resolve(doc.text), doc.text)

\* load(), lines 120-127, on the document read from lasv.yaml
load_document(doc) ==
    LET loaded == safe_load(doc)
        empty == PyDict({<<PyStr("crates"), PyDict({})>>})
    IN  IF loaded.tag = "dict" /\ loaded.items = {} THEN empty
        ELSE IF loaded.tag = "NoneType" THEN empty
        ELSE loaded

YamlIndex ==
    [releases |-> <<V(1, 2, 0), V(1, 2, 1)>>, binary |-> TRUE,
     external |-> FALSE, unavailable |-> {}]

InitYaml ==
    /\ PureIdle
    /\ fp \in {[IdleFrame EXCEPT !.v1 = Some(prev), !.v2 = Some(version),
                                  !.analyzer = Some(analyzer)] :
                    prev \in {V(1, 0, 0), V(1, 2, 0)},
                    version \in {V(1, 2, 1)},
                    analyzer \in LedgerAnalyzers}
    /\ context = NewContext /\ alr = NoIndex /\ tree = EmptyDict /\ runs = 0
    /\ sv = NoSave
    /\ qm = NoQuery
    /\ data = list_crate(EmptyDict, YamlIndex)
    /\ file = None
    /\ old = None

\* self.save() at the end of a method, the write succeeding
YamlSave(d) ==
    /\ old' = save_rename(file, old)[2]
    /\ file' = Some(safe_dump(TypedLedger(d)))
    /\ sv' = [sv EXCEPT !.saved = Some(d), !.reloaded = None]

YStart ==
    /\ \E from_version \in {None, fp.v1} :
        data' = start_diagnosis(data, Crate, fp.v2[1], fp.analyzer[1],
                                from_version)
    /\ YamlSave(data')
    /\ UNCHANGED <<pureVars, fp, context, alr, tree, runs, qm>>

YEmit ==
    /\ ~emit_change_raises(data, Crate, fp.v2[1], fp.analyzer[1])
    /\ Len(DiagOf(data, Crate, fp.v2[1], fp.analyzer[1])["changes"]) < MaxEmit
    /\ \E change \in LedgerChanges :
        data' = emit_change(data, Crate, fp.v2[1], fp.analyzer[1], change)
    /\ UNCHANGED <<pureVars, file, old, pairVars>>

YUsage ==
    /\ ~add_llm_usage_skips(data, Crate, fp.v2[1], fp.analyzer[1])
    /\ Get(DiagOf(data, Crate, fp.v2[1], fp.analyzer[1]),
           "llm_spec_chars", 0) < MaxUsage
    /\ \E cost \in {None, Some(1)} :
        data' = add_llm_usage(data, Crate, fp.v2[1], fp.analyzer[1], 1, 1, cost)
    /\ YamlSave(data')
    /\ UNCHANGED <<pureVars, fp, context, alr, tree, runs, qm>>

YFinish ==
    /\ ~finish_diagnosis_raises(data, Crate, fp.v1[1], fp.v2[1], fp.analyzer[1])
    /\ data' = finish_diagnosis(data, Crate, fp.v1[1], fp.v2[1], fp.analyzer[1])
    /\ YamlSave(data')
    /\ UNCHANGED <<pureVars, fp, context, alr, tree, runs, qm>>

YFinishError ==
    /\ ~finish_diagnosis_with_error_raises(data, Crate, fp.v2[1],
                                           fp.analyzer[1])
    /\ data' = finish_diagnosis_with_error(data, Crate, fp.v2[1],
                                           fp.analyzer[1], "error")
    /\ YamlSave(data')
    /\ UNCHANGED <<pureVars, fp, context, alr, tree, runs, qm>>

\* load() of lasv.yaml as last saved
YLoad ==
    /\ file # None
    /\ sv.reloaded = None
    /\ sv' = [sv EXCEPT !.reloaded = Some(load_document(file[1]))]
    /\ UNCHANGED <<pureVars, ledgerVars, fp, context, alr, tree, runs, qm>>

NextYaml == YStart \/ YEmit \/ YUsage \/ YFinish \/ YFinishError \/ YLoad

SpecYaml == InitYaml /\ [][NextYaml]_vars

(***************************************************************************)
(* Specification SpecJudge: query_model (llm.py 23-139) entered with the   *)
(* three parameters it declares, under the try block find_pairs puts       *)
(* around the judge's analysis of a pair (releases.py 475-486).  The call  *)
(* of specs.py 103 passes a fourth argument and never enters the body      *)
(* (query_model_call); here the body runs, one attempt per step, the       *)
(* server's answer to each attempt being any of Responses.                 *)
(***************************************************************************)
max_retries == 6
base_delay == 1
max_delay == 60
JudgePrev == V(1, 0, 0)
JudgeVersion == V(1, 1, 0)
Responses == {"ok", "http_error", "network_error", "no_choices", "not_json"}

RECURSIVE Pow2(_)
Pow2(n) == IF n = 0 THEN 1 ELSE 2 * Pow2(n - 1)
Min(a, b) == IF a < b THEN a ELSE b
\* mutant: the delay grows by base_delay with every retry
BackoffLinear(retry_count) == Min(base_delay * (retry_count + 1), max_delay)

\* lines 100 and 123
backoff_delay(retry_count) == Min(base_delay * Pow2(retry_count), max_delay)

\* the except clause an attempt ends in: "return" when it has none.  An
\* HTTPError carries a response that is falsy, so its status_code is None and
\* it is retried like a network error; a reply without choices raises
\* RequestException inside the try block; response.json() raises
\* json.JSONDecodeError, which newer requests also derive from
\* RequestException, and the except clauses are tried in order.
handlers(response) ==
    IF response = "ok" THEN {"return"}
    ELSE IF response = "http_error" THEN {"HTTPError"}
    ELSE IF response \in {"network_error", "no_choices"}
    THEN {"RequestException"}
    ELSE {"RequestException", "JSONDecodeError"}

InitJudge ==
    /\ PureIdle
    /\ fp = [IdleFrame EXCEPT !.mode = "find_pairs", !.pc = "compare",
                              !.phase = "model", !.v1 = Some(JudgePrev),
                              !.v2 = Some(JudgeVersion),
                              !.analyzer = Some(ModelKey),
                              !.all_specs = SpecFiles,
                              !.found_count = 1, !.minor_found = TRUE]
    /\ context = [model |-> Some(ModelKey), model_key |-> None, full |-> FALSE]
    /\ data = start_diagnosis(EmptyDict, Crate, JudgeVersion, ModelKey, None)
    /\ file = Some(data)
    /\ old = None
    /\ alr = NoIndex /\ tree = EmptyDict /\ runs = 1
    /\ sv = NoSave
    /\ qm = NoQuery

\* lines 31-42
QEnter ==
    /\ fp.pc = "compare"
    /\ qm.pc = "idle"
    /\ qm' = [NoQuery EXCEPT !.pc = "try"]
    /\ UNCHANGED <<pureVars, ledgerVars, fp, context, alr, tree, runs, sv>>

\* lines 44-135: one turn of the while loop
QAttempt ==
    /\ qm.pc = "try"
    /\ qm.retry_count <= max_retries
    /\ \E response \in Responses : \E handler \in handlers(response) :
          qm' = IF handler = "return"
                THEN [qm EXCEPT !.pc = "returned",
                                !.log = Append(@, response)]
                ELSE IF handler = "JSONDecodeError"
                        \/ qm.retry_count >= max_retries
                THEN [qm EXCEPT !.pc = "exit", !.log = Append(@, response)]
                ELSE [qm EXCEPT
                         !.retry_count = @ + 1,
                         !.slept = Append(@, backoff_delay(qm.retry_count)),
                         !.log = Append(@, response)]
    /\ UNCHANGED <<pureVars, ledgerVars, fp, context, alr, tree, runs, sv>>

\* lines 74-81: the response text and the usage go back to
\* compare_spec_content
QReturn ==
    /\ qm.pc = "returned"
    /\ fp' = [fp EXCEPT !.pc = "answered",
                        !.judged = @ \cup {<<fp.v2[1], fp.analyzer[1]>>}]
    /\ UNCHANGED <<pureVars, ledgerVars, context, alr, tree, runs, sv, qm>>

\* sys.exit(1), lines 115, 130 and 134: SystemExit is not an Exception, the
\* except clause of find_pairs (releases.py 482) does not run and the
\* process ends with the diagnosis as it was
QExit ==
    /\ qm.pc = "exit"
    /\ fp.pc = "compare"
    /\ fp' = [fp EXCEPT !.pc = "terminated"]
    /\ UNCHANGED <<pureVars, ledgerVars, context, alr, tree, runs, sv, qm>>

NextJudge == QEnter \/ QAttempt \/ QReturn \/ QExit

SpecJudge == InitJudge /\ [][NextJudge]_vars

(***************************************************************************)
(* Specification SpecRetrieve: the runs of Spec over a source crate one of *)
(* whose releases alr get cannot download.  retrieve() catches the         *)
(* CalledProcessError, prints it and returns (releases.py 244-251).        *)
(***************************************************************************)
InitRetrieve ==
    /\ PureIdle
    /\ LedgerIdle
    /\ fp = IdleFrame
    /\ sv = NoSave
    /\ qm = NoQuery
    /\ context = NewContext
    /\ runs = 0
    /\ \E history \in Histories :
          /\ \E version \in Range(history) :
                alr = Index(history, FALSE, FALSE, {version})
          /\ tree \in [Range(history) -> [SpecFiles -> FileStates]]
          \* nothing of the release that cannot be downloaded is on disk
          /\ \A version \in alr.unavailable :
                tree[version] = [spec \in SpecFiles |-> Absent]

SpecRetrieve == InitRetrieve /\ [][Next]_vars

(***************************************************************************)
(* Specification SpecContent: lines 106-164 of compare_spec_content, from  *)
(* the response and usage a judge call has returned to the changes in the  *)
(* ledger.  A response is its lines; a line is what the pattern of line   *)
(* 130 looks at: the word it begins with, the separator between the two    *)
(* numbers, the numbers and the rest.                                      *)
(***************************************************************************)
MaxLines == 3        \* lines of a response

ResponseLine(head, sep, line, col, description) ==
    [head |-> head, sep |-> sep, line |-> line, col |-> col,
     description |-> description]
JudgeLines ==
    {ResponseLine("MAJOR", ", ", 12, 3, "removed exported procedure"),
     ResponseLine("minor", ", ", 20, 1, "added optional parameter"),
     ResponseLine("MAJOR", ",", 12, 3, "removed exported procedure"),
     ResponseLine("minor", ",", 20, 1, "added optional parameter"),
     ResponseLine("MINOR", ", ", 20, 1, "added optional parameter"),
     ResponseLine("garbage", "", 0, 0, "")}
Responses_lines ==
    UNION {[1..n -> JudgeLines] : n \in 0..MaxLines}

\* re.match of line 130: MAJOR or minor, a space, "(", digits, a comma and a
\* space, digits, "): " and the description
re_match(line) ==
    line.head \in {"MAJOR", "minor"} /\ line.sep = ", "

prompt_name == "detailed"
analyzer_name(base_model_name) ==
    base_model_name \o "(" \o prompt_name \o ")"

\* the loop over response.splitlines(): emit_change for each matching line
RECURSIVE parse_response(_, _, _, _, _)
parse_response(d, crate, version, analyzer, lines) ==
    IF lines = <<>> THEN d
    ELSE LET line == Head(lines)
             severity == IF line.head = "MAJOR" THEN ChangeType_MAJOR
                         ELSE ChangeType_MINOR
         IN  parse_response(
                 IF re_match(line)
                 THEN emit_change(d, crate, version, analyzer,
                          ChangeInfo(severity, line.line, line.col,
                                     line.description, "a.ads", "a.ads"))
                 ELSE d,
                 crate, version, analyzer, Tail(lines))

InitContent ==
    /\ PureIdle
    /\ fp = [IdleFrame EXCEPT !.mode = "find_pairs", !.pc = "compare",
                              !.phase = "model", !.v1 = Some(JudgePrev),
                              !.v2 = Some(JudgeVersion),
                              !.analyzer = Some(ModelKey),
                              !.all_specs = SpecFiles,
                              !.found_count = 1, !.minor_found = TRUE]
    /\ context = [model |-> Some(ModelKey), model_key |-> None, full |-> FALSE]
    /\ data = start_diagnosis(EmptyDict, Crate, JudgeVersion, ModelKey, None)
    /\ file = Some(data)
    /\ old = None
    /\ alr = NoIndex /\ tree = EmptyDict /\ runs = 1
    /\ sv = NoSave
    /\ \E response \in Responses_lines, cost \in {None, Some(1)} :
          qm = [pc |-> "returned", response |-> response,
                usage |-> [spec_chars |-> 1, system_chars |-> 1,
                           cost |-> cost]]

\* lines 106-164: add_llm_usage, then the loop over the lines
ParseResponse ==
    /\ qm.pc = "returned"
    /\ LET base_model_name == IF context.model_key # None
                              THEN context.model_key[1] ELSE context.model[1]
           analyzer == analyzer_name(base_model_name)
           counted == IF add_llm_usage_skips(data, Crate, fp.v2[1], analyzer)
                      THEN data
                      ELSE add_llm_usage(data, Crate, fp.v2[1], analyzer,
                                         qm.usage.spec_chars,
                                         qm.usage.system_chars, qm.usage.cost)
       IN  data' = parse_response(counted, Crate, fp.v2[1], analyzer,
                                  qm.response)
    /\ qm' = [qm EXCEPT !.pc = "parsed"]
    /\ UNCHANGED <<pureVars, file, old, fp, context, alr, tree, runs, sv>>

NextContent == ParseResponse

SpecContent == InitContent /\ [][NextContent]_vars

(***************************************************************************)
(* Specification SpecMemo: start_diagnosis called for the analyzers of one *)
(* release with and without a from_version, between verdicts and the del  *)
(* of redo.                                                                *)
(***************************************************************************)
MemoVersion == V(1, 2, 0)
MemoFrom == {V(1, 0, 0), V(1, 0, 1), V(1, 1, 0)}

InitMemo ==
    /\ PureIdle
    /\ LedgerIdle
    /\ fp = [IdleFrame EXCEPT !.v1 = Some(V(1, 1, 0)), !.v2 = Some(MemoVersion)]
    /\ context = NewContext /\ alr = NoIndex /\ tree = EmptyDict /\ runs = 0
    /\ sv = NoSave
    /\ qm = NoQuery

\* start_diagnosis(crate, version, analyzer, from_version)
MStart ==
    \E analyzer \in LedgerAnalyzers,
       from_version \in {None} \cup {Some(v) : v \in MemoFrom} :
        /\ data' = start_diagnosis(data, Crate, MemoVersion, analyzer,
                                   from_version)
        /\ Save(data')
        /\ UNCHANGED <<pureVars, pairVars>>

\* redo: del of the analyzer's slot, then start_diagnosis
MRedo ==
    \E analyzer \in LedgerAnalyzers,
       from_version \in {None} \cup {Some(v) : v \in MemoFrom} :
        /\ HasAnalyzer(data, Crate, MemoVersion, analyzer)
        /\ data' = start_diagnosis(
                       delete_diagnosis(data, Crate, MemoVersion, analyzer),
                       Crate, MemoVersion, analyzer, from_version)
        /\ Save(data')
        /\ UNCHANGED <<pureVars, pairVars>>

MFinish ==
    \E analyzer \in LedgerAnalyzers :
        /\ ~finish_diagnosis_raises(data, Crate, fp.v1[1], MemoVersion, analyzer)
        /\ data' = finish_diagnosis(data, Crate, fp.v1[1], MemoVersion, analyzer)
        /\ Save(data')
        /\ UNCHANGED <<pureVars, pairVars>>

NextMemo == MStart \/ MRedo \/ MFinish

SpecMemo == InitMemo /\ [][NextMemo]_vars

(***************************************************************************)
(* Specification SpecWorkers: two processes of lasv_main, each given one   *)
(* crate, run at the same time on the same lasv.yaml.  Each process loads  *)
(* the file into its own context.data (lasv_main 302), diagnoses a release *)
(* of its crate, and every save() writes the whole of its context.data     *)
(* over the file.  There is no lock in the code.                           *)
(***************************************************************************)
Workers == {"w1", "w2"}
CrateOf(worker) == IF worker = "w1" THEN "crate_a" ELSE "crate_b"
WorkerPrev == V(1, 0, 0)
WorkerVersion == V(1, 1, 0)

InitWorkers ==
    /\ PureIdle
    /\ data = [worker \in Workers |-> EmptyDict]
    /\ file = None
    /\ old = None
    /\ fp = [worker \in Workers |-> "idle"]
    /\ context = NewContext /\ alr = NoIndex /\ tree = EmptyDict /\ runs = 0
    /\ sv = NoSave
    /\ qm = NoQuery

\* context.load()
WLoad(worker) ==
    /\ fp[worker] = "idle"
    /\ data' = [data EXCEPT ![worker] = load(file)]
    /\ fp' = [fp EXCEPT ![worker] = "loaded"]
    /\ UNCHANGED <<pureVars, file, old, context, alr, tree, runs, sv, qm>>

\* start_diagnosis(crate, v2, "files"), with its save()
WStart(worker) ==
    /\ fp[worker] = "loaded"
    /\ data' = [data EXCEPT ![worker] =
                   start_diagnosis(@, CrateOf(worker), WorkerVersion, Files,
                                   None)]
    /\ Save(data'[worker])
    /\ fp' = [fp EXCEPT ![worker] = "started"]
    /\ UNCHANGED <<pureVars, context, alr, tree, runs, sv, qm>>

\* emit_change for a file of the pair
WEmit(worker) ==
    /\ fp[worker] = "started"
    /\ \E change \in LedgerChanges :
          /\ Len(DiagOf(data[worker], CrateOf(worker), WorkerVersion,
                        Files)["changes"]) < MaxEmit
          /\ data' = [data EXCEPT ![worker] =
                         emit_change(@, CrateOf(worker), WorkerVersion, Files,
                                     change)]
    /\ UNCHANGED <<pureVars, file, old, fp, context, alr, tree, runs, sv, qm>>

\* finish_diagnosis(crate, v1, v2, "files"), with its save()
WFinish(worker) ==
    /\ fp[worker] = "started"
    /\ data' = [data EXCEPT ![worker] =
                   finish_diagnosis(@, CrateOf(worker), WorkerPrev,
                                    WorkerVersion, Files)]
    /\ Save(data'[worker])
    /\ fp' = [fp EXCEPT ![worker] = "finished"]
    /\ UNCHANGED <<pureVars, context, alr, tree, runs, sv, qm>>

\* the context.save() that ends lasv_main (316)
WExit(worker) ==
    /\ fp[worker] = "finished"
    /\ Save(data[worker])
    /\ fp' = [fp EXCEPT ![worker] = "done"]
    /\ UNCHANGED <<pureVars, data, context, alr, tree, runs, sv, qm>>

NextWorkers ==
    \E worker \in Workers :
        \/ WLoad(worker)
        \/ WStart(worker)
        \/ WEmit(worker)
        \/ WFinish(worker)
        \/ WExit(worker)

SpecWorkers == InitWorkers /\ [][NextWorkers]_vars

(***************************************************************************)
(* Specification SpecSkip: the walk of find_pairs over a crate of four     *)
(* releases in which, when context.full is not set, the pair between two   *)
(* analysed pairs is passed over: 1.1.1 -> 1.1.2 is the first patch bump,  *)
(* 1.1.0 -> 1.1.1 a second patch bump, 1.0.0 -> 1.1.0 the first minor      *)
(* bump.  The steps are those of Spec.                                     *)
(***************************************************************************)
SkipHistory == <<V(1, 0, 0), V(1, 1, 0), V(1, 1, 1), V(1, 1, 2)>>

InitSkip ==
    /\ PureIdle
    /\ LedgerIdle
    /\ fp = IdleFrame
    /\ sv = NoSave
    /\ qm = NoQuery
    /\ context = NewContext
    /\ runs = 0
    /\ alr = Index(SkipHistory, FALSE, FALSE, {})
    \* the sources of 1.0.0, and those that the 1.1 releases share
    /\ \E first \in FileStates, source \in FileStates :
          tree = [version \in Range(SkipHistory) |->
                     [spec \in SpecFiles |->
                         IF version = V(1, 0, 0) THEN first ELSE source]]

SpecSkip == InitSkip /\ [][Next]_vars

----------------------------------------------------------------------------
\* The decision table of section 4.2 and the classification of section 4.1,
\* as the specification states them.
TableBump(prev, curr) ==
    IF prev.major = 0
    THEN IF \/ curr.major > prev.major
            \/ (curr.minor > prev.minor /\ curr.major = prev.major)
         THEN BumpType_MAJOR
         ELSE IF /\ curr.patch > prev.patch /\ curr.minor = prev.minor
                 /\ curr.major = prev.major
         THEN BumpType_MINOR ELSE BumpType_NONE
    ELSE IF curr.major > prev.major THEN BumpType_MAJOR
    ELSE IF curr.major = prev.major /\ curr.minor > prev.minor
    THEN BumpType_MINOR
    ELSE IF /\ curr.major = prev.major /\ curr.minor = prev.minor
            /\ curr.patch > prev.patch
    THEN BumpType_PATCH ELSE BumpType_NONE
DecisionTable(bump, has_major, has_minor, structural) ==
    CASE bump = BumpType_MAJOR /\ ~has_major /\ ~structural ->
            Verdict(Compliance_LAX, ReasonMajorLax)
      [] bump = BumpType_MINOR /\ has_major ->
            Verdict(Compliance_NO, ReasonMinorNo)
      [] bump = BumpType_MINOR /\ ~has_major /\ ~has_minor /\ ~structural ->
            Verdict(Compliance_LAX, ReasonMinorLax)
      [] bump = BumpType_PATCH /\ (has_major \/ has_minor) ->
            Verdict(Compliance_NO, ReasonPatchNo)
      [] OTHER -> Verdict(Compliance_STRICT, "")
Contains(changes, severity) ==
    \E i \in 1..Len(changes) : changes[i]["severity"] = severity

\* what C1 says of the slot (curr, analyzer) of ledger d closed against prev
FinishedPerTable(d, prev, curr, analyzer) ==
    LET diag == DiagOf(d, Crate, curr, analyzer)
        row == DecisionTable(TableBump(prev, curr),
                             Contains(diag["changes"], "MAJOR"),
                             Contains(diag["changes"], "minor"),
                             analyzer = Files)
    IN  /\ "compliant" \in DOMAIN diag
        /\ diag["compliant"] = row.compliance
        /\ ("noncompliance" \in DOMAIN diag) <=>
               (row.compliance \in {Compliance_LAX, Compliance_NO})
        /\ ("noncompliance" \in DOMAIN diag) =>
               diag["noncompliance"] = row.reason
        /\ (/\ prev = V(0, 1, 0) /\ curr = V(0, 2, 0) /\ analyzer = Files
            /\ Len(diag["changes"]) = 1 /\ Contains(diag["changes"], "MAJOR"))
           => (/\ diag["compliant"] = Compliance_STRICT
               /\ "noncompliance" \notin DOMAIN diag)

\* C1: every step in which finish_diagnosis(crate, prev, curr, analyzer)
\* succeeds leaves in that diagnosis the verdict of the section 4.2 table for
\* (bump(prev, curr), MAJOR change stored, MINOR change stored, analyzer is
\* 'files'), and a non-compliance reason iff the verdict is LAX or NO; 0.1.0 ->
\* 0.2.0 with one MAJOR change under 'files' is left STRICT with no reason.
C1_FinishStoresTable ==
    [][(/\ LFinish
        /\ ~finish_diagnosis_raises(data, Crate, fp.v1[1], fp.v2[1],
                                    fp.analyzer[1]))
       => FinishedPerTable(data', fp.v1[1], fp.v2[1], fp.analyzer[1])]_vars
\* the scenario of the claim, as finish_diagnosis saved it
C1_Witness ==
    /\ fp.v1 = Some(V(0, 1, 0)) /\ fp.v2 = Some(V(0, 2, 0))
    /\ fp.analyzer = Some(Files)
    /\ file = Some(data)
    /\ HasAnalyzer(data, Crate, V(0, 2, 0), Files)
    /\ LET diag == DiagOf(data, Crate, V(0, 2, 0), Files)
       IN  /\ "changes" \in DOMAIN diag
           /\ Len(diag["changes"]) = 1
           /\ diag["changes"][1]["severity"] = "MAJOR"
           /\ Get(diag, "compliant", "") = Compliance_STRICT
           /\ "noncompliance" \notin DOMAIN diag

\* C2: for bump MINOR the result is NO with the MAJOR-changes reason whenever
\* a MAJOR change is present, whatever the analyzer and the MINOR changes;
\* LAX is returned exactly when there is no MAJOR change, no MINOR change and
\* the analyzer is not 'files'.
C2_MinorBump ==
    (in_bump = BumpType_MINOR /\ out_compliance # UnsetVerdict) =>
        /\ (in_major # <<>>) =>
               out_compliance = Verdict(Compliance_NO, ReasonMinorNo)
        /\ (out_compliance.compliance = Compliance_LAX) <=>
               (in_major = <<>> /\ in_minor = <<>> /\ in_analyzer # Files)
\* a MINOR bump with both a MAJOR change and no MINOR change under a judge:
\* both checks apply and NO wins
C2_Witness ==
    /\ in_bump = BumpType_MINOR /\ in_major # <<>> /\ in_minor = <<>>
    /\ in_analyzer = ModelKey
    /\ out_compliance = Verdict(Compliance_NO, ReasonMinorNo)

\* C3: for bump MAJOR the result is LAX with the major-bump reason iff there
\* is no MAJOR change and the analyzer is not 'files'; otherwise STRICT.
C3_MajorBump ==
    (in_bump = BumpType_MAJOR /\ out_compliance # UnsetVerdict) =>
        IF in_major = <<>> /\ in_analyzer # Files
        THEN out_compliance = Verdict(Compliance_LAX, ReasonMajorLax)
        ELSE out_compliance.compliance = Compliance_STRICT
C3_Witness ==
    /\ in_bump = BumpType_MAJOR /\ in_major = <<>> /\ in_analyzer = Files
    /\ out_compliance # UnsetVerdict
    /\ out_compliance.compliance = Compliance_STRICT

\* C4: for bump PATCH the result is NO with the patch reason iff a MAJOR or a
\* MINOR change is present, for every analyzer; with no change it is STRICT.
\* 1.2.0 -> 1.2.1 is such a bump.
C4_PatchBump ==
    /\ _detect_version_bump(V(1, 2, 0), V(1, 2, 1)) = BumpType_PATCH
    /\ (in_bump = BumpType_PATCH /\ out_compliance # UnsetVerdict) =>
           IF in_major # <<>> \/ in_minor # <<>>
           THEN out_compliance = Verdict(Compliance_NO, ReasonPatchNo)
           ELSE out_compliance.compliance = Compliance_STRICT
C4_Witness ==
    /\ in_bump = _detect_version_bump(V(1, 2, 0), V(1, 2, 1))
    /\ in_major = <<>> /\ Len(in_minor) = 1 /\ in_analyzer = Files
    /\ out_compliance = Verdict(Compliance_NO, ReasonPatchNo)

\* C5: for bump NONE the result is STRICT with an empty reason for every
\* analyzer and every combination of changes.
C5_NoneBump ==
    (in_bump = BumpType_NONE /\ out_compliance # UnsetVerdict) =>
        out_compliance = Verdict(Compliance_STRICT, "")
C5_Witness ==
    /\ in_bump = BumpType_NONE /\ in_major # <<>> /\ in_minor # <<>>
    /\ in_analyzer = ModelKey
    /\ out_compliance = Verdict(Compliance_STRICT, "")

\* C6: with v1.major >= 1 the bump is MAJOR iff v2.major > v1.major, MINOR
\* iff the majors are equal and v2.minor > v1.minor, PATCH iff major and
\* minor are equal and v2.patch > v1.patch, and NONE in every other case.
C6_BumpFromOne ==
    (out_bump # Unset /\ in_v1.major >= 1) =>
        /\ (out_bump = BumpType_MAJOR) <=> (in_v2.major > in_v1.major)
        /\ (out_bump = BumpType_MINOR) <=>
               (in_v2.major = in_v1.major /\ in_v2.minor > in_v1.minor)
        /\ (out_bump = BumpType_PATCH) <=>
               (/\ in_v2.major = in_v1.major /\ in_v2.minor = in_v1.minor
                /\ in_v2.patch > in_v1.patch)
        /\ (out_bump = BumpType_NONE) <=>
               ~(\/ in_v2.major > in_v1.major
                 \/ in_v2.major = in_v1.major /\ in_v2.minor > in_v1.minor
                 \/ /\ in_v2.major = in_v1.major /\ in_v2.minor = in_v1.minor
                    /\ in_v2.patch > in_v1.patch)
\* a higher major with a lower minor is MAJOR; the minor field alone says nothing
C6_Witness ==
    /\ in_v1 = V(1, 2, 0) /\ in_v2 = V(2, 0, 0)
    /\ out_bump = BumpType_MAJOR

\* C7: with v1.major = 0 the bump is MAJOR when the major field, or the minor
\* field with equal major, is greater; MINOR when only the patch field is
\* greater; NONE otherwise; never PATCH.
C7_BumpFromZero ==
    (out_bump # Unset /\ in_v1.major = 0) =>
        /\ out_bump # BumpType_PATCH
        /\ (out_bump = BumpType_MAJOR) <=>
               (\/ in_v2.major > in_v1.major
                \/ in_v2.major = in_v1.major /\ in_v2.minor > in_v1.minor)
        /\ (out_bump = BumpType_MINOR) <=>
               (/\ in_v2.major = in_v1.major /\ in_v2.minor = in_v1.minor
                /\ in_v2.patch > in_v1.patch)
        /\ (in_v1 = in_v2) => out_bump = BumpType_NONE
C7_Witness ==
    /\ in_v1 = V(0, 1, 0) /\ in_v2 = V(0, 1, 1)
    /\ out_bump = BumpType_MINOR

\* The slots of a release's diagnoses that belong to an analyzer: its own key
\* and, for a judge, the name composed from it and the prompt variant.
AnalyzerSlots(analyzer) ==
    IF analyzer = Files THEN {Files}
    ELSE {analyzer, AnalyzerName(analyzer, "detailed")}
\* the changes a slot of the release in hand holds, and the changes the
\* diagnosis in hand has emitted to it
RecordedIn(slot) ==
    Get(Get(DiagnosisOf(data, Crate, fp.v2[1]), slot, EmptyDict), "changes", <<>>)
EmittedTo(slot) ==
    LET to_slot == SelectSeq(fp.events, LAMBDA e : e.analyzer = slot)
    IN  [i \in 1..Len(to_slot) |-> to_slot[i].change]

IsClosed(d, version, analyzer) ==
    /\ HasAnalyzer(d, Crate, version, analyzer)
    /\ "compliant" \in DOMAIN DiagOf(d, Crate, version, analyzer)
ChangeListOf(d, version, analyzer) ==
    IF HasAnalyzer(d, Crate, version, analyzer)
       /\ "changes" \in DOMAIN DiagOf(d, Crate, version, analyzer)
    THEN Some(DiagOf(d, Crate, version, analyzer)["changes"])
    ELSE None
\* the step is the deletion and recreation of the slot by redo
RedoStep(version, analyzer) ==
    /\ fp.pc = "begin"
    /\ fp.v2 = Some(version)
    /\ phase_analyzer(fp, context) = analyzer
    /\ redo_applies(fp, context, HasAnalyzer(data, Crate, version, analyzer))
    /\ fp'.pc = "compare"

\* C9: Once a diagnosis of a (release, analyzer) is closed, no step of the
\* same or a later run changes its change list, unless the step is redo
\* deleting and recreating the diagnosis.
C9_ClosedImmutable ==
    [][\A version \in Range(alr.releases), analyzer \in KnownAnalyzers :
          IsClosed(data, version, analyzer)
              => \/ RedoStep(version, analyzer)
                 \/ /\ HasAnalyzer(data', Crate, version, analyzer)
                    /\ ChangeListOf(data', version, analyzer)
                           = ChangeListOf(data, version, analyzer)]_vars

\* C10: When redo deleted one analyzer's diagnosis of a release and the
\* analysis has run again and is closed, every other analyzer's diagnosis
\* of that release is as it was before the redo.
C10_RedoLeavesOthers ==
    (fp.redone /\ fp.pc = "closed")
        => LET after == DiagnosisOf(data, Crate, fp.v2[1])
               others(diagnosis) ==
                   DOMAIN diagnosis \ AnalyzerSlots(fp.analyzer[1])
           IN  /\ others(after) = others(fp.before)
               /\ \A other \in others(fp.before) :
                     after[other] = fp.before[other]

\* C11: Every ledger that save() has written to lasv.yaml holds, for every
\* release, only diagnoses that carry a verdict: no diagnosis that was
\* started, or received changes or usage counters, is persisted without one.
C11_PersistedHasVerdict ==
    file # None =>
        \A version \in (IF HasReleases(file[1], Crate)
                        THEN DOMAIN file[1][Crate]["releases"] ELSE {}) :
            \A analyzer \in DOMAIN DiagnosisOf(file[1], Crate, version)
                            \ {"from_version"} :
                "compliant" \in DOMAIN DiagOf(file[1], Crate, version, analyzer)

\* C12: Whenever a process is interrupted, the ledger the next load() returns
\* is the ledger of the last save() that completed (never an empty one once a
\* save has succeeded).
C12_LoadReturnsLastSaved ==
    [][(sv.pc = "down" /\ sv'.pc = "run" /\ sv.saved # None)
        => data' = sv.saved[1]]_vars

\* C13: When the write of save() fails and save() re-raises, lasv.yaml holds
\* exactly what it held when save() was called.
C13_FailedSaveRestores ==
    [][(sv.pc = "renamed" /\ sv'.pc = "raised") => file' = sv.before]_vars

\* C14: What load() makes of the document save() wrote is the ledger that was
\* saved: the same packages, releases, diagnoses, verdicts, reasons, usage
\* counters and change lists, each value with the type it had.
C14_RoundTrip ==
    sv.reloaded # None => sv.reloaded[1] = TypedLedger(sv.saved[1])

\* a ledger with a NO verdict (the text "no"), a change whose description
\* holds ": " and usage counters has been saved and reloaded
C14_Witness ==
    /\ sv.reloaded # None
    /\ HasAnalyzer(sv.saved[1], Crate, fp.v2[1], fp.analyzer[1])
    /\ LET diag == DiagOf(sv.saved[1], Crate, fp.v2[1], fp.analyzer[1])
       IN  /\ Get(diag, "compliant", "") = Compliance_NO
           /\ Get(diag, "llm_cost", 0) > 0
           /\ \E i \in DOMAIN diag["changes"] :
                HasIndicator(diag["changes"][i]["description"])

\* the run in hand repeats the run that returned before it: find_pairs with
\* the same judge model and the same mode, this time without redo
SecondRun ==
    /\ fp.mode = "find_pairs"
    /\ ~fp.redo
    /\ fp.last # None
    /\ fp.last[1].mode = "find_pairs"
    /\ fp.last[1].model = context.model
    /\ fp.last[1].full = context.full

\* C15: When find_pairs runs a second time with redo=False, the same judge
\* model and mode, and the same release history, its analyses call the judge
\* for no (release, analyzer) that was already diagnosed, and when it returns
\* every diagnosis the ledger held at its start is unchanged.
C15_SecondRunSkips ==
    SecondRun =>
        /\ \A call \in fp.judged :
              ~HasAnalyzer(fp.start, Crate, call[1], call[2])
        /\ fp.pc = "return" =>
              \A version \in Range(alr.releases) :
                  \A key \in DOMAIN DiagnosisOf(fp.start, Crate, version) :
                      /\ key \in DOMAIN DiagnosisOf(data, Crate, version)
                      /\ DiagnosisOf(data, Crate, version)[key]
                             = DiagnosisOf(fp.start, Crate, version)[key]

\* a second run with a judge model returns after walking two pairs whose
\* diagnoses exist, one of them holding a change
C15_Witness ==
    /\ SecondRun
    /\ fp.pc = "return"
    /\ context.model # None
    /\ fp.found_count = 2
    /\ \A i \in DOMAIN fp.pairs :
          /\ HasAnalyzer(fp.start, Crate, fp.pairs[i][2], Files)
          /\ HasAnalyzer(fp.start, Crate, fp.pairs[i][2], ModelKey)
    /\ \E i \in DOMAIN fp.pairs :
          DiagOf(fp.start, Crate, fp.pairs[i][2], ModelKey)["compliant"]
              = Compliance_ERROR

\* a step of find_pairs in which the analysis in hand raises: a comparison
\* raises, or every file is compared and finish_diagnosis raises
RaisingStep ==
    /\ fp.mode = "find_pairs"
    /\ fp.pc = "compare"
    /\ fp'.pc # "compare"
    /\ \/ fp.all_specs # {}
       \/ finish_diagnosis_raises(data, Crate, fp.v1[1], fp.v2[1],
                                  fp.analyzer[1])

\* C16: When the analysis of a pair by one analyzer raises inside find_pairs,
\* that analyzer's diagnosis gets the verdict ERROR with the error message and
\* no change list, every other diagnosis of the ledger is left as it was, and
\* the walk goes on from the same pair with its counters unchanged.
C16_ErrorConfined ==
    [][RaisingStep =>
        LET version == fp.v2[1]
            analyzer == fp.analyzer[1]
        IN  /\ HasAnalyzer(data', Crate, version, analyzer)
            /\ LET diag == DiagOf(data', Crate, version, analyzer)
               IN  /\ "compliant" \in DOMAIN diag
                   /\ diag["compliant"] = Compliance_ERROR
                   /\ "error_message" \in DOMAIN diag
                   /\ "changes" \notin DOMAIN diag
            /\ \A other \in Range(alr.releases) :
                  \A key \in DOMAIN DiagnosisOf(data, Crate, other) :
                      (other # version \/ key # analyzer) =>
                          /\ key \in DOMAIN DiagnosisOf(data', Crate, other)
                          /\ DiagnosisOf(data', Crate, other)[key]
                                 = DiagnosisOf(data, Crate, other)[key]
            /\ fp'.pc = "closed"
            /\ fp' = [fp EXCEPT !.pc = "closed", !.all_specs = {},
                                !.judged = fp'.judged]
            /\ context' = context]_vars

\* the judge's analysis of a pair has raised after the structural diagnosis
\* of the same pair was closed with a verdict other than ERROR, and an older
\* pair is left to walk
C16_Witness ==
    /\ fp.mode = "find_pairs"
    /\ fp.pc = "closed"
    /\ fp.phase = "model"
    /\ HasAnalyzer(data, Crate, fp.v2[1], ModelKey)
    /\ Get(DiagOf(data, Crate, fp.v2[1], ModelKey), "compliant", "")
           = Compliance_ERROR
    /\ HasAnalyzer(data, Crate, fp.v2[1], Files)
    /\ Get(DiagOf(data, Crate, fp.v2[1], Files), "compliant", "")
           \in {Compliance_STRICT, Compliance_LAX, Compliance_NO}
    /\ find_previous_version(alr.releases, fp.v1[1]) # None

C18_UnparsableNotSkipped ==
    /\ [][(fp.mode = "find_pairs" /\ fp.pc = "walk" /\ fp'.pc = "walk") =>
            LET v1 == find_previous_version(alr.releases, fp.v2[1])
            IN  (v1 # None /\ first_part(v1[1]) >= 1) =>
                    semver_parses(v1[1]) /\ semver_parses(fp.v2[1])]_vars
    /\ [](\A version \in Range(alr.releases) :
            LET v1 == find_previous_version(alr.releases, version)
            IN  (v1 # None /\ ~(semver_parses(v1[1]) /\ semver_parses(version)))
                => \A analyzer \in DOMAIN DiagnosisOf(data, Crate, version)
                                   \ {"from_version"} :
                       Get(DiagOf(data, Crate, version, analyzer),
                           "compliant", "")
                           \notin {Compliance_STRICT, Compliance_LAX,
                                   Compliance_NO})

\* the consecutive pairs of the index, oldest first, and what the walker
\* would classify one as
IndexPairs ==
    {<<alr.releases[k - 1], alr.releases[k]>> : k \in 2..Len(alr.releases)}
PositionOf(version) ==
    CHOOSE k \in 1..Len(alr.releases) : alr.releases[k] = version
Classified(pair) ==
    /\ first_part(pair[1]) >= 1
    /\ semver_parses(pair[1]) /\ semver_parses(pair[2])

C20_FullSkipsNone ==
    (fp.mode = "find_pairs" /\ context.full
     /\ ~alr.external /\ ~alr.binary) =>
        /\ fp.found_count = Len(fp.pairs)
        /\ \A i \in DOMAIN fp.pairs :
              Classified(fp.pairs[i]) =>
                  _detect_version_bump(fp.pairs[i][1], fp.pairs[i][2])
                      # BumpType_NONE
        /\ fp.pc = "return" =>
              \A pair \in IndexPairs :
                  (Classified(pair) =>
                      _detect_version_bump(pair[1], pair[2]) # BumpType_NONE)
                  => (first_part(pair[1]) >= 1
                      => \E i \in DOMAIN fp.pairs : fp.pairs[i] = pair)

\* the release before version in the index is below 1.0.0
PreOne(version) ==
    LET v1 == find_previous_version(alr.releases, version)
    IN  v1 # None /\ first_part(v1[1]) < 1

\* C21: A pair whose older version is below 1.0.0 gets no diagnosis, is not
\* counted and has no sources retrieved for it, and find_pairs goes on with
\* the older version as the new upper version.
C21_PreOneSkipped ==
    /\ [](\A version \in Range(alr.releases) :
            PreOne(version) => DiagnosisOf(data, Crate, version) = EmptyDict)
    /\ [][(fp.mode = "find_pairs" /\ fp.pc = "walk" /\ PreOne(fp.v2[1])) =>
            /\ data' = data
            /\ fp'.found_count = fp.found_count
            /\ fp'.retrieved = fp.retrieved
            /\ fp'.pairs = fp.pairs
            /\ fp'.pc = "walk"
            /\ fp'.v2 = find_previous_version(alr.releases, fp.v2[1])]_vars

\* after analysing 1.0.0 -> 2.0.0 the walk has passed over 0.2.0 -> 1.0.0
C21_Witness ==
    /\ fp.mode = "find_pairs"
    /\ fp.pc = "walk"
    /\ fp.found_count = 1
    /\ fp.v2 = Some(V(0, 2, 0))
    /\ fp.retrieved = <<V(2, 0, 0), V(1, 0, 0)>>
    /\ HasDiagnosis(data, Crate, V(2, 0, 0))
    /\ ~HasDiagnosis(data, Crate, V(1, 0, 0))

\* the reasons for find_pairs to return: the index has no release before the
\* upper version (the last version when the walk has not moved), the crate is
\* external or binary and nothing was done, or a non-full walk has analysed a
\* pair of each category
StopNoPrevious ==
    find_previous_version(alr.releases,
                          IF fp.v2 # None THEN fp.v2[1]
                          ELSE alr.releases[Len(alr.releases)]) = None
StopNonSource ==
    /\ HasCrate(data, Crate)
    /\ Get(data[Crate], "external", FALSE) \/ Get(data[Crate], "binary", FALSE)
    /\ fp.found_count = 0 /\ fp.v2 = None /\ fp.retrieved = <<>>
    /\ data = fp.start
StopAllFound ==
    /\ ~context.full
    /\ fp.major_found /\ fp.minor_found /\ fp.patch_found

\* C22: find_pairs returns only because the index has no release before the
\* upper version, because the crate is external or binary (then with count 0
\* and nothing done), or because a non-full walk has analysed a MAJOR, a
\* MINOR and a PATCH pair.
C22_StopReasons ==
    (fp.mode = "find_pairs" /\ fp.pc = "return") =>
        StopNoPrevious \/ StopNonSource \/ StopAllFound

\* a call that was entered keeps executing: Python runs find_pairs and
\* analyze_release_with_model to their end without being descheduled for ever
RunStep == fp.pc # "idle" /\ Next
\* the liveness check follows the last two runs of a behaviour
InitLive ==
    /\ PureIdle
    /\ LedgerIdle
    /\ fp = IdleFrame
    /\ sv = NoSave
    /\ qm = NoQuery
    /\ context = NewContext
    /\ runs = MaxRuns - 2
    /\ \E history \in Histories :
          /\ alr \in {Index(history, FALSE, FALSE, {}),
                      Index(history, TRUE, FALSE, {}),
                      Index(history, FALSE, TRUE, {})}
          /\ tree \in [Range(history) -> [SpecFiles -> FileStates]]
SpecLive == InitLive /\ [][Next]_vars /\ WF_vars(RunStep)

AnalysedNewer == {fp.pairs[i][2] : i \in 1..Len(fp.pairs)}

\* the slot of analyzer under version holds a verdict
HasVerdict(version, analyzer) ==
    /\ HasAnalyzer(data, Crate, version, analyzer)
    /\ "compliant" \in DOMAIN DiagOf(data, Crate, version, analyzer)

NeedsUnavailable(version) ==
    LET v1 == find_previous_version(alr.releases, version)
    IN  \/ version \in alr.unavailable
        \/ v1 # None /\ v1[1] \in alr.unavailable

\* C25: a pair one of whose releases could not be retrieved gets no verdict:
\* its newer release holds no diagnosis with a verdict, and the walk goes on.
C25_UnretrievedAbandoned ==
    \A version \in Range(alr.releases) :
        NeedsUnavailable(version) =>
            \A analyzer \in {Files, ModelKey} : ~HasVerdict(version, analyzer)

\* the change compare_spec_files is to record for a file of only one release
OneSided(source1, source2) == source1.present # source2.present
AddedOrRemoved(spec, source1, source2) ==
    IF source2.present
    THEN ChangeInfo(ChangeType_MINOR, 0, 0,
                    "Public spec file added: " \o spec, spec, "")
    ELSE ChangeInfo(ChangeType_MAJOR, 0, 0,
                    "Public spec file removed: " \o spec, "", spec)

\* C26: in the 'files' diagnosis of a pair, with or without a model, the
\* comparison of a file present in only one release records exactly one
\* change under 'files' at (0,0), MINOR "added" or MAJOR "removed", when the
\* file is not private, and no change when it is private.
C26_OneSidedRecorded ==
    [][\A spec \in SpecFiles :
          (/\ fp.pc = "compare" /\ fp.phase = "files"
           /\ spec \in fp.all_specs /\ spec \notin fp'.all_specs
           /\ fp'.pc = "compare"
           /\ OneSided(retrieved_sources(fp.v1[1])[spec],
                       retrieved_sources(fp.v2[1])[spec]))
          => LET source1 == retrieved_sources(fp.v1[1])[spec]
                 source2 == retrieved_sources(fp.v2[1])[spec]
                 only == IF source2.present THEN source2 ELSE source1
             IN  IF is_private_package(only)
                 THEN data' = data /\ fp'.events = fp.events
                 ELSE /\ data' = emit_change(data, Crate, fp.v2[1], Files,
                                     AddedOrRemoved(spec, source1, source2))
                      /\ fp'.events = Append(fp.events,
                             [analyzer |-> Files,
                              change |-> change_dict(
                                  AddedOrRemoved(spec, source1, source2))])]_vars

\* the change compare_spec_files is to record for a file whose publicness
\* differs between the releases
PrivacyFlip(spec, source1) ==
    IF is_private_package(source1)
    THEN ChangeInfo(ChangeType_MINOR, 0, 0,
                    "Public spec file added: " \o spec, spec, spec)
    ELSE ChangeInfo(ChangeType_MAJOR, 0, 0,
                    "Public spec file removed: " \o spec, spec, spec)

\* C27: the comparison of a file present in both releases records one change
\* under 'files' exactly when the file is private in one release and public
\* in the other, MINOR if it became public and MAJOR if it became private;
\* when it is private in both nothing is recorded and the comparison of
\* contents is not called; when it is public in both nothing is recorded
\* under 'files' by this step and the outcome is that of
\* compare_spec_content.
C27_BothPresent ==
    [][\A spec \in SpecFiles :
          (/\ fp.pc = "compare"
           /\ spec \in fp.all_specs /\ spec \notin fp'.all_specs
           /\ retrieved_sources(fp.v1[1])[spec].present
           /\ retrieved_sources(fp.v2[1])[spec].present)
          => LET source1 == retrieved_sources(fp.v1[1])[spec]
                 source2 == retrieved_sources(fp.v2[1])[spec]
                 content == compare_spec_content(context.model,
                                                 source1, source2)
             IN  IF is_private_package(source1) # is_private_package(source2)
                 THEN /\ ~emit_change_raises(data, Crate, fp.v2[1], Files)
                      /\ data' = emit_change(data, Crate, fp.v2[1], Files,
                                             PrivacyFlip(spec, source1))
                      /\ fp'.events = Append(fp.events,
                             [analyzer |-> Files,
                              change |-> change_dict(
                                             PrivacyFlip(spec, source1))])
                 ELSE IF is_private_package(source1)
                 THEN data' = data /\ fp'.events = fp.events
                      /\ fp'.pc = "compare"
                 ELSE /\ fp'.events = fp.events
                      /\ IF content.kind = "raise"
                         THEN /\ fp'.pc = "closed"
                              /\ Get(DiagOf(data', Crate, fp.v2[1],
                                            fp.analyzer[1]),
                                     "error_message", "") = content.message
                         ELSE data' = data /\ fp'.pc = "compare"]_vars

\* the lines the claim takes as "SEVERITY (line, col): description": its
\* example writes the two numbers without a space
ClaimedForm(line) ==
    line.head \in {"MAJOR", "minor"} /\ line.sep \in {", ", ","}
ExampleResponse ==
    <<ResponseLine("MAJOR", ",", 12, 3, "removed exported procedure"),
      ResponseLine("minor", ",", 20, 1, "added optional parameter"),
      ResponseLine("garbage", "", 0, 0, "")>>
RECURSIVE ClaimedChanges(_)
ClaimedChanges(lines) ==
    IF lines = <<>> THEN <<>>
    ELSE IF ClaimedForm(Head(lines))
    THEN <<[severity |-> Head(lines).head, line |-> Head(lines).line,
            col |-> Head(lines).col]>> \o ClaimedChanges(Tail(lines))
    ELSE ClaimedChanges(Tail(lines))
ParsedChanges ==
    LET analyzer == analyzer_name(ModelKey)
        recorded == IF HasAnalyzer(data, Crate, fp.v2[1], analyzer)
                    THEN DiagOf(data, Crate, fp.v2[1], analyzer)["changes"]
                    ELSE <<>>
    IN  [i \in 1..Len(recorded) |->
            [severity |-> recorded[i].severity, line |-> recorded[i].line,
             col |-> recorded[i].col]]

BudgetFailures == {"http_error", "network_error", "no_choices"}

StoredVerdict(d, version, analyzer) ==
    LET diag == DiagOf(d, Crate, version, analyzer)
    IN  <<Get(diag, "compliant", ""), Get(diag, "noncompliance", "")>>

\* the ledger d with the change list of the slot replaced by changes
WithChanges(d, version, analyzer, changes) ==
    WithDiagnosis(d, Crate, version,
        Put(DiagnosisOf(d, Crate, version), analyzer,
            Put(DiagOf(d, Crate, version, analyzer), "changes", changes)))

\* the change lists of up to MaxEmit changes that report the same set of
\* changes as the list changes, in any order
SameChanges(changes) ==
    {other \in UNION {[1..n -> Range(changes)] : n \in 0..MaxEmit} :
        Range(other) = Range(changes)}

\* C30: the verdict and the reason finish_diagnosis stores are those it
\* would store for the same two versions and analyzer had the same set of
\* changes been reported in any other order.
C30_OrderIndependent ==
    [][\A prev \in {fp.v1[1]}, curr \in {fp.v2[1]},
          analyzer \in {fp.analyzer[1]} :
          (/\ ~finish_diagnosis_raises(data, Crate, prev, curr, analyzer)
           /\ data' = finish_diagnosis(data, Crate, prev, curr, analyzer))
          => \A other \in SameChanges(
                              DiagOf(data, Crate, curr, analyzer)["changes"]) :
                StoredVerdict(
                    finish_diagnosis(WithChanges(data, curr, analyzer, other),
                                     Crate, prev, curr, analyzer),
                    curr, analyzer)
                = StoredVerdict(data', curr, analyzer)]_vars

\* a MINOR bump closed NO after a minor and then a MAJOR change were reported
C30_Witness ==
    /\ fp.v1 = Some(V(1, 1, 0)) /\ fp.v2 = Some(V(1, 2, 1))
    /\ fp.analyzer = Some(ModelKey)
    /\ HasAnalyzer(data, Crate, V(1, 2, 1), ModelKey)
    /\ LET diag == DiagOf(data, Crate, V(1, 2, 1), ModelKey)
       IN  /\ "changes" \in DOMAIN diag
           /\ Len(diag["changes"]) = 2
           /\ diag["changes"][1]["severity"] = "minor"
           /\ diag["changes"][2]["severity"] = "MAJOR"
           /\ StoredVerdict(data, V(1, 2, 1), ModelKey)
                  = <<Compliance_NO, ReasonMinorNo>>

\* the number of lines of a response the pattern of line 130 accepts
RECURSIVE MatchingLines(_)
MatchingLines(lines) ==
    IF lines = <<>> THEN 0
    ELSE (IF re_match(Head(lines)) THEN 1 ELSE 0) + MatchingLines(Tail(lines))

LeftDiagnosis == fp.pc \in {"closed", "walk", "return", "terminated"}

UsageOf(analyzer) ==
    LET diag == IF HasAnalyzer(data, Crate, fp.v2[1], analyzer)
                THEN DiagOf(data, Crate, fp.v2[1], analyzer) ELSE EmptyDict
    IN  [spec_chars |-> Get(diag, "llm_spec_chars", 0),
         system_chars |-> Get(diag, "llm_system_chars", 0),
         cost |-> IF "llm_cost" \in DOMAIN diag
                  THEN Some(diag["llm_cost"]) ELSE None]

SkipsContent(source1, source2) ==
    \/ exceeds_max_spec_bytes(source1)
    \/ exceeds_max_spec_bytes(source2)
    \/ _get_public_spec(source1) = _get_public_spec(source2)

C35_RetrievalPerPair ==
    [][(fp.mode = "find_pairs" /\ fp'.mode = "find_pairs") =>
          IF fp'.found_count = fp.found_count + 1
          THEN LET pair == fp'.pairs[Len(fp'.pairs)]
               IN  fp'.retrieved =
                       fp.retrieved \o (IF fp.found_count = 0
                                        THEN <<pair[2], pair[1]>>
                                        ELSE <<pair[1]>>)
          ELSE fp'.retrieved = fp.retrieved]_vars

\* a full walk over 1.0.0, 1.0.1, 1.0.2 has taken its second pair
C35_Witness ==
    /\ fp.mode = "find_pairs" /\ fp.pc = "begin" /\ fp.phase = "files"
    /\ fp.found_count = 2
    /\ fp.pairs = <<<<V(1, 0, 1), V(1, 0, 2)>>, <<V(1, 0, 0), V(1, 0, 1)>>>>
    /\ fp.retrieved = <<V(1, 0, 2), V(1, 0, 1), V(1, 0, 0)>>

\* C36: once the diagnosis of a release holds a from_version, no call of
\* start_diagnosis for an analyzer of the release, with another
\* from_version, with none, or after the del of redo, changes or removes it.
C36_MemoKept ==
    [][("from_version" \in DOMAIN DiagnosisOf(data, Crate, MemoVersion)) =>
          /\ "from_version" \in DOMAIN DiagnosisOf(data', Crate, MemoVersion)
          /\ DiagnosisOf(data', Crate, MemoVersion)["from_version"]
                 = DiagnosisOf(data, Crate, MemoVersion)["from_version"]]_vars

\* the memo is 1.0.0 and both analyzers have been started after it was set,
\* one of them with its diagnosis closed and started again
C36_Witness ==
    /\ HasAnalyzer(data, Crate, MemoVersion, Files)
    /\ HasAnalyzer(data, Crate, MemoVersion, ModelKey)
    /\ "from_version" \in DOMAIN DiagnosisOf(data, Crate, MemoVersion)
    /\ DiagnosisOf(data, Crate, MemoVersion)["from_version"] = V(1, 0, 0)
    /\ "compliant" \in DOMAIN DiagOf(data, Crate, MemoVersion, Files)
    /\ DiagOf(data, Crate, MemoVersion, ModelKey) = [changes |-> <<>>]
    /\ old # None /\ old[1] # data
    /\ HasAnalyzer(old[1], Crate, MemoVersion, ModelKey)
    /\ "compliant" \in DOMAIN DiagOf(old[1], Crate, MemoVersion, ModelKey)

\* C37: when two workers have each diagnosed a release of their own crate
\* against the same lasv.yaml and have ended, the file holds the diagnosis
\* of both, with the verdict and the changes each worker has in memory.
C37_NothingLost ==
    (\A worker \in Workers : fp[worker] = "done") =>
        /\ file # None
        /\ \A worker \in Workers :
              /\ HasAnalyzer(file[1], CrateOf(worker), WorkerVersion, Files)
              /\ DiagOf(file[1], CrateOf(worker), WorkerVersion, Files)
                     = DiagOf(data[worker], CrateOf(worker), WorkerVersion,
                              Files)

C39_NoJudgeInFilesDiagnosis ==
    /\ \A call \in fp.judged : call[2] # Files
    /\ (fp.pc = "compare" /\ fp.analyzer = Some(Files)) =>
          \A i \in 1..Len(fp.events) : fp.events[i].analyzer = Files

\* C40: in a run of find_pairs with redo=False, a step that skips the
\* diagnosis of a (release, analyzer) as already made is taken only when the
\* stored slot holds the verdict strict, lax or no: a slot closed as error,
\* or left without a verdict, is diagnosed again.
C40_SkipsOnlyVerdicts ==
    [][(/\ fp.mode = "find_pairs" /\ ~fp.redo
        /\ fp.pc = "begin" /\ fp'.pc = "closed")
       => Get(DiagOf(data, Crate, fp.v2[1], phase_analyzer(fp, context)),
              "compliant", "none")
             \in {Compliance_STRICT, Compliance_LAX, Compliance_NO}]_vars
====
